---------------------------- MODULE Spec2Model ----------------------------
(***************************************************************************)
(* ESPHome Python Bluetooth proxy: the API server's per-client connection *)
(* state machine (connection.py), the server's connection list            *)
(* (api_server.py), the device-info provider (device_info.py) and the     *)
(* payload encoders the handlers use (protocol.py).                       *)
(*                                                                         *)
(* A payload is the sequence of fields the encoder emits, in emission     *)
(* order, each field a record [field |-> number, value |-> value]; a      *)
(* field whose value is the encoder's default is omitted, as in the code. *)
(***************************************************************************)
EXTENDS Integers, Sequences, FiniteSets, Bags, TLC

(***************************************************************************)
(* Bounds of the model.                                                    *)
(***************************************************************************)
MaxConns == 2
MaxFrames == 2

Conns == 1..MaxConns

(***************************************************************************)
(* protocol.py: MessageType                                                *)
(***************************************************************************)
HELLO_REQUEST == 1
HELLO_RESPONSE == 2
CONNECT_REQUEST == 3
CONNECT_RESPONSE == 4
DISCONNECT_REQUEST == 5
DISCONNECT_RESPONSE == 6
PING_REQUEST == 7
PING_RESPONSE == 8
DEVICE_INFO_REQUEST == 9
DEVICE_INFO_RESPONSE == 10
LIST_ENTITIES_REQUEST == 11
LIST_ENTITIES_DONE_RESPONSE == 19
BLUETOOTH_DEVICE_REQUEST == 26
BLUETOOTH_DEVICE_CONNECTION_RESPONSE == 27
BLUETOOTH_GATT_GET_SERVICES_REQUEST == 28
BLUETOOTH_GATT_GET_SERVICES_RESPONSE == 29
BLUETOOTH_GATT_READ_REQUEST == 30
BLUETOOTH_GATT_WRITE_REQUEST == 32
BLUETOOTH_GATT_NOTIFY_REQUEST == 34

\* Message types that MessageType does not define: the wire number of
\* SubscribeStatesRequest and an unassigned one.
UnlistedTypes == {20, 99}

(***************************************************************************)
(* connection.py: ConnectionState                                          *)
(***************************************************************************)
CONNECTING == 0
CONNECTED == 1
AUTHENTICATED == 2

ConnectionState == {CONNECTING, CONNECTED, AUTHENTICATED}

(***************************************************************************)
(* Optional values: None is the empty sequence, Some(v) a one-element one. *)
(***************************************************************************)
None == <<>>
Some(v) == <<v>>

Passwords == {"secret", "nope"}
ConfiguredPasswords == {None, Some("secret")}
AdapterMACs == {"AA:BB:CC:DD:EE:01", "AA:BB:CC:DD:EE:02"}
Addresses == {1}

VARIABLES
    password,               \* ESPHomeAPIServer.password / APIConnection.password
    active_connections,     \* DeviceInfoProvider.active_connections
    bluetooth_mac_address,  \* DeviceInfoProvider.bluetooth_mac_address
    proxy_attached,         \* the connection objects carry bluetooth_proxy / gatt_handler
    exited,                 \* the process has called sys.exit
    connections,            \* ESPHomeAPIServer.connections
    pc,                     \* where each connection's handle_connection task is
    state,                  \* APIConnection.state
    closing,                \* APIConnection.writer.is_closing()
    client_info,            \* APIConnection.client_info
    subscribed_to_states,   \* APIConnection.subscribed_to_states
    buffered,               \* complete frames in _handle_messages' buffer
    last,                   \* the step taken last, with the connection's state before it
    events                  \* what the step taken last did, in order

VARIABLES
    running,                \* BluetoothProxy.running
    stopping,               \* BluetoothProxy.stop is waiting for its disconnects
    connection_pool,        \* BluetoothProxy.connection_pool
    proxy_connections,      \* BluetoothProxy.connections: address -> slot
    tasks,                  \* the connect() / disconnect() tasks in flight
    released,               \* a slot has been handed back or stop has run
    scanning_enabled,       \* BluetoothProxy.scanning_enabled
    scanning,               \* BLEScanner.scanning of BluetoothProxy.scanner
    subscribed_connections  \* BluetoothProxy.subscribed_connections

VARIABLES
    advertisement_batch,    \* AdvertisementBatcher.advertisement_batch
    flush_timer,            \* AdvertisementBatcher.flush_timer is set
    flush_tasks,            \* flush_batch tasks created and not yet run
    last_flush_time,        \* AdvertisementBatcher.last_flush_time: 0, or 1 once set
    waited,                 \* FLUSH_TIMEOUT_MS have passed since last_flush_time
    appended,               \* advertisements passed to add_advertisement so far
    sent_batch,             \* the batch passed to send_callback last
    sent_before             \* the last advertisement sent before sent_batch

VARIABLES
    notification_subscriptions, \* GATTOperationHandler.notification_subscriptions
    gatt_ops,               \* the GATT request each API connection is awaiting
    notify_tasks            \* handle_notification_data tasks created, not yet run

VARIABLES
    socket_bytes,           \* the bytes the peer sends on one connection
    received,               \* how many of them reader.read has returned
    buffer,                 \* _handle_messages: buffer
    handled,                \* the (type, payload) pairs given to _handle_message
    loop                    \* _handle_messages: "reading", "returned", "eof"

VARIABLES
    server_running,         \* ESPHomeAPIServer.running
    shutdown_requested,     \* ESPHomeAPIServer._shutdown_requested
    server,                 \* the listener: "none", "open", "closed"
    main_task,              \* the task that awaits ESPHomeAPIServer.start
    shutdown_tasks,         \* _shutdown tasks the signal handler has created
    shutdown_pc,            \* where the _shutdown task is
    cancelled,              \* connection handler tasks cancelled, not yet run
    loop_stopped,           \* loop.stop() has been called
    signals                 \* signals delivered so far

api_vars == <<password, active_connections, bluetooth_mac_address,
              proxy_attached, exited, connections, pc, state, closing,
              client_info, subscribed_to_states, buffered, last>>

scan_vars == <<scanning_enabled, scanning, subscribed_connections>>

proxy_vars == <<running, stopping, connection_pool, proxy_connections, tasks,
                released, scan_vars>>

batcher_vars == <<advertisement_batch, flush_timer, flush_tasks,
                  last_flush_time, waited, appended, sent_batch, sent_before>>

gatt_vars == <<notification_subscriptions, gatt_ops, notify_tasks>>

frame_vars == <<socket_bytes, received, buffer, handled, loop>>

server_vars == <<server_running, shutdown_requested, server, main_task,
                 shutdown_tasks, shutdown_pc, cancelled, loop_stopped, signals>>

vars == <<api_vars, events, proxy_vars, batcher_vars, gatt_vars, frame_vars,
          server_vars>>

\* What the steps of one component leave alone.
beside_api == <<proxy_vars, batcher_vars, gatt_vars, frame_vars, server_vars>>
beside_proxy == <<api_vars, batcher_vars, gatt_vars, frame_vars, server_vars>>
beside_batcher == <<api_vars, proxy_vars, gatt_vars, frame_vars, server_vars>>
beside_gatt == <<api_vars, batcher_vars, frame_vars, server_vars>>
beside_server == <<proxy_vars, batcher_vars, gatt_vars, frame_vars>>
beside_frames == <<api_vars, events, proxy_vars, batcher_vars, gatt_vars,
                   server_vars>>

config_vars == <<password, active_connections, proxy_attached>>


(***************************************************************************)
(* Requests.  A request is the frame's message type with what its decoder  *)
(* yields: decodes is FALSE for a payload on which the decoder raises      *)
(* ProtocolError.                                                          *)
(***************************************************************************)
Msg(t) ==
    [type |-> t, decodes |-> TRUE, password |-> "", action |-> 0,
     address |-> 0]

NoMsg == Msg(0)

HelloMsgs == {[Msg(HELLO_REQUEST) EXCEPT !.decodes = d] : d \in BOOLEAN}

ConnectMsgs ==
    {[Msg(CONNECT_REQUEST) EXCEPT !.password = p] : p \in Passwords}
        \cup {[Msg(CONNECT_REQUEST) EXCEPT !.decodes = FALSE]}

BluetoothDeviceMsgs ==
    {[Msg(BLUETOOTH_DEVICE_REQUEST) EXCEPT !.action = a, !.address = d] :
        a \in 0..2, d \in Addresses}

GattTypes == {BLUETOOTH_GATT_READ_REQUEST, BLUETOOTH_GATT_WRITE_REQUEST,
              BLUETOOTH_GATT_NOTIFY_REQUEST}

GattMsgs == {Msg(t) : t \in GattTypes}

UnlistedMsgs == {Msg(t) : t \in UnlistedTypes}

Requests ==
    HelloMsgs \cup ConnectMsgs \cup BluetoothDeviceMsgs \cup GattMsgs
        \cup UnlistedMsgs
        \cup {Msg(DISCONNECT_REQUEST), Msg(DEVICE_INFO_REQUEST),
              Msg(LIST_ENTITIES_REQUEST), Msg(PING_REQUEST)}
        \cup {[Msg(BLUETOOTH_GATT_GET_SERVICES_REQUEST) EXCEPT !.address = d] :
                 d \in Addresses}

(***************************************************************************)
(* What the environment decides during a handler: how the adapter MAC      *)
(* probe ends, and what the coordinator answers: whether it accepts a      *)
(* connect or disconnect request, whether the device of a get-services     *)
(* request has a connected slot.                                           *)
(***************************************************************************)
Envs == [probe : {"bleak", "hciconfig", "fail"}, mac : AdapterMACs,
         success : BOOLEAN]

NoEnv == [probe |-> "bleak", mac |-> CHOOSE a \in AdapterMACs : TRUE,
          success |-> TRUE]

\* The choices that the handler of m can observe.
EnvsOf(m) ==
    CASE m.type = DEVICE_INFO_REQUEST /\ bluetooth_mac_address = None ->
             {e \in Envs : e.success}
      [] m.type = BLUETOOTH_DEVICE_REQUEST /\ proxy_attached
           /\ m.action \in {0, 1} ->
             {e \in Envs : e.probe = "bleak"}
      [] m.type = BLUETOOTH_GATT_GET_SERVICES_REQUEST /\ proxy_attached ->
             {e \in Envs : e.probe = "bleak"}
      [] OTHER -> {NoEnv}

(***************************************************************************)
(* Effects a step records in events.                                       *)
(***************************************************************************)
Write(t, p) == [ev |-> "write", type |-> t, payload |-> p]
WriteLost(t, p) == [ev |-> "write_lost", type |-> t, payload |-> p]
Call(name) == [ev |-> name, type |-> 0, payload |-> <<>>]

(***************************************************************************)
(* protocol.py: MessageEncoder                                             *)
(***************************************************************************)
Field(n, v, present) == IF present THEN <<[field |-> n, value |-> v]>> ELSE <<>>

\* encode_hello_response without its last field.
encode_hello_response_without_name(msg) ==
    Field(1, msg.api_version_major, msg.api_version_major # 1)
        \o Field(2, msg.api_version_minor, msg.api_version_minor # 10)
        \o Field(3, msg.server_info, msg.server_info # "")

encode_hello_response(msg) ==
    Field(1, msg.api_version_major, msg.api_version_major # 1)
        \o Field(2, msg.api_version_minor, msg.api_version_minor # 10)
        \o Field(3, msg.server_info, msg.server_info # "")
        \o Field(4, msg.name, msg.name # "")

encode_connect_response(msg) ==
    Field(1, msg.invalid_password, msg.invalid_password)

encode_device_info_response(msg) ==
    Field(1, msg.uses_password, msg.uses_password)
        \o Field(2, msg.name, msg.name # "")
        \o Field(3, msg.mac_address, msg.mac_address # "")
        \o Field(4, msg.esphome_version, msg.esphome_version # "")
        \o Field(5, msg.compilation_time, msg.compilation_time # "")
        \o Field(6, msg.model, msg.model # "")
        \o Field(7, msg.has_deep_sleep, msg.has_deep_sleep)
        \o Field(8, msg.project_name, msg.project_name # "")
        \o Field(9, msg.project_version, msg.project_version # "")
        \o Field(10, msg.webserver_port, msg.webserver_port # 0)
        \o Field(15, msg.bluetooth_proxy_feature_flags,
                 msg.bluetooth_proxy_feature_flags # 0)
        \o Field(12, msg.manufacturer, msg.manufacturer # "")
        \o Field(13, msg.friendly_name, msg.friendly_name # "")
        \o Field(18, msg.bluetooth_mac_address, msg.bluetooth_mac_address # "")

encode_bluetooth_device_connection_response(msg) ==
    Field(1, msg.address, TRUE)
        \o Field(2, msg.connected, TRUE)
        \o Field(3, msg.mtu, msg.mtu # 0)
        \o Field(4, msg.error, msg.error # 0)

(***************************************************************************)
(* device_info.py: DeviceInfoProvider                                      *)
(***************************************************************************)
FEATURE_PASSIVE_SCAN == 1
FEATURE_ACTIVE_CONNECTIONS == 2
FEATURE_REMOTE_CACHING == 4
FEATURE_PAIRING == 8
FEATURE_CACHE_CLEARING == 16
FEATURE_RAW_ADVERTISEMENTS == 32
FEATURE_STATE_AND_MODE == 64

\* The flags are distinct bits, so or-ing them is adding them.
get_feature_flags_without_pairing(active) ==
    FEATURE_PASSIVE_SCAN + FEATURE_RAW_ADVERTISEMENTS + FEATURE_STATE_AND_MODE
        + (IF active
           THEN FEATURE_ACTIVE_CONNECTIONS + FEATURE_REMOTE_CACHING
                    + FEATURE_CACHE_CLEARING
           ELSE 0)

get_feature_flags(active) ==
    FEATURE_PASSIVE_SCAN + FEATURE_RAW_ADVERTISEMENTS + FEATURE_STATE_AND_MODE
        + (IF active
           THEN FEATURE_ACTIVE_CONNECTIONS + FEATURE_REMOTE_CACHING
                    + FEATURE_PAIRING + FEATURE_CACHE_CLEARING
           ELSE 0)

\* _get_bluetooth_mac_address: the MAC found, with the probes made; None
\* when both methods fail and the provider calls sys.exit(1).
get_bluetooth_mac_address(env) ==
    CASE env.probe = "bleak" ->
             [mac |-> Some(env.mac), events |-> <<Call("probe_bleak")>>]
      [] env.probe = "hciconfig" ->
             [mac |-> Some(env.mac),
              events |-> <<Call("probe_bleak"), Call("probe_hciconfig")>>]
      [] OTHER ->
             [mac |-> None,
              events |-> <<Call("probe_bleak"), Call("probe_hciconfig"),
                           Call("sys_exit")>>]

\* get_device_info once the MAC is known.
DeviceInfo(mac) ==
    [uses_password |-> password # None,
     name |-> "python-bluetooth-proxy",
     mac_address |-> mac,
     esphome_version |-> "2024.12.0",
     compilation_time |-> "Jan 01 2025, 00:00:00",
     model |-> "Python Bluetooth Proxy",
     has_deep_sleep |-> FALSE,
     project_name |-> "esphome.python-bluetooth-proxy",
     project_version |-> "0.1.0",
     webserver_port |-> 0,
     bluetooth_proxy_feature_flags |-> get_feature_flags(active_connections),
     manufacturer |-> "ESPHome Community",
     friendly_name |-> "Python Bluetooth Proxy",
     bluetooth_mac_address |-> mac]

\* get_device_info: the cached MAC is reused, otherwise it is probed for;
\* info is None when the process exits instead of returning.
get_device_info_always_probes(env) ==
    LET found == get_bluetooth_mac_address(env)
    IN  [mac |-> found.mac,
         info |-> IF found.mac = None THEN None
                  ELSE Some(DeviceInfo(found.mac[1])),
         events |-> found.events]

get_device_info(env) ==
    IF bluetooth_mac_address # None
    THEN [mac |-> bluetooth_mac_address,
          info |-> Some(DeviceInfo(bluetooth_mac_address[1])),
          events |-> <<>>]
    ELSE LET found == get_bluetooth_mac_address(env)
         IN  [mac |-> found.mac,
              info |-> IF found.mac = None THEN None
                       ELSE Some(DeviceInfo(found.mac[1])),
              events |-> found.events]


(***************************************************************************)
(* connection.py: APIConnection.  A handler is an operator from the        *)
(* connection c, the request m and the environment's choices env to the    *)
(* connection's fields after the handler, with the effects it had.         *)
(*                                                                         *)
(* _send_message writes the frame and awaits drain(); on a transport that  *)
(* is closing the frame is dropped and drain() raises, so the rest of the  *)
(* handler's try block is skipped.                                         *)
(***************************************************************************)
ClientInfo == "aioesphomeapi"

Cur(c) ==
    [state |-> state[c], closing |-> closing[c],
     client_info |-> client_info[c],
     subscribed_to_states |-> subscribed_to_states[c],
     mac |-> bluetooth_mac_address, exited |-> FALSE, events |-> <<>>]

\* _send_message as the last statement of a handler, after the effects evs.
send_message(c, evs, t, p) ==
    IF closing[c]
    THEN [Cur(c) EXCEPT !.events = evs \o <<WriteLost(t, p)>>]
    ELSE [Cur(c) EXCEPT !.events = evs \o <<Write(t, p)>>]

\* close(): closes the writer unless it is closing already.
close(r) ==
    IF r.closing THEN r
    ELSE [r EXCEPT !.closing = TRUE, !.events = r.events \o <<Call("close")>>]

HelloResponse ==
    [api_version_major |-> 1, api_version_minor |-> 10,
     server_info |-> "ESPHome Python Bluetooth Proxy v0.1.0",
     name |-> "python-bluetooth-proxy"]

handle_hello_request(c, m, env) ==
    IF state[c] # CONNECTING THEN Cur(c)
    ELSE IF ~m.decodes THEN Cur(c)
    ELSE LET sent == send_message(c, <<>>, HELLO_RESPONSE,
                                  encode_hello_response(HelloResponse))
         IN  IF closing[c]
             THEN [sent EXCEPT !.client_info = ClientInfo]
             ELSE [sent EXCEPT !.client_info = ClientInfo,
                               !.state = CONNECTED]

password_valid(m) ==
    IF password = None THEN TRUE ELSE m.password = password[1]

\* handle_connect_request without the comparison of the password.
handle_connect_request_any_password(c, m, env) ==
    IF state[c] = AUTHENTICATED THEN Cur(c)
    ELSE IF state[c] # CONNECTED THEN Cur(c)
    ELSE IF ~m.decodes THEN Cur(c)
    ELSE LET sent == send_message(c, <<>>, CONNECT_RESPONSE,
                         encode_connect_response(
                             [invalid_password |-> ~password_valid(m)]))
         IN  IF closing[c] THEN sent
             ELSE [sent EXCEPT !.state = AUTHENTICATED]

\* handle_connect_request that closes the writer before it sends the
\* response.
handle_connect_request_close_first(c, m, env) ==
    IF state[c] = AUTHENTICATED THEN Cur(c)
    ELSE IF state[c] # CONNECTED THEN Cur(c)
    ELSE IF ~m.decodes THEN Cur(c)
    ELSE IF closing[c] \/ password_valid(m)
         THEN LET sent == send_message(c, <<>>, CONNECT_RESPONSE,
                              encode_connect_response(
                                  [invalid_password |-> ~password_valid(m)]))
              IN  IF closing[c] THEN sent
                  ELSE [sent EXCEPT !.state = AUTHENTICATED]
         ELSE LET closed == close(Cur(c))
              IN  [closed EXCEPT !.events = closed.events \o
                      <<WriteLost(CONNECT_RESPONSE, encode_connect_response(
                            [invalid_password |-> TRUE]))>>]

\* handle_connect_request that accepts the request in any state but
\* Authenticated.
handle_connect_request_in_any_state(c, m, env) ==
    IF state[c] = AUTHENTICATED THEN Cur(c)
    ELSE IF ~m.decodes THEN Cur(c)
    ELSE LET sent == send_message(c, <<>>, CONNECT_RESPONSE,
                         encode_connect_response(
                             [invalid_password |-> ~password_valid(m)]))
         IN  IF closing[c] THEN sent
             ELSE IF password_valid(m)
                  THEN [sent EXCEPT !.state = AUTHENTICATED]
                  ELSE close(sent)

\* handle_connect_request that checks the password again when the
\* connection is Authenticated already.
handle_connect_request_again(c, m, env) ==
    IF state[c] = CONNECTING THEN Cur(c)
    ELSE IF ~m.decodes THEN Cur(c)
    ELSE LET sent == send_message(c, <<>>, CONNECT_RESPONSE,
                         encode_connect_response(
                             [invalid_password |-> ~password_valid(m)]))
         IN  IF closing[c] THEN sent
             ELSE IF password_valid(m)
                  THEN [sent EXCEPT !.state = AUTHENTICATED]
                  ELSE close(sent)

handle_connect_request(c, m, env) ==
    IF state[c] = AUTHENTICATED THEN Cur(c)
    ELSE IF state[c] # CONNECTED THEN Cur(c)
    ELSE IF ~m.decodes THEN Cur(c)
    ELSE LET sent == send_message(c, <<>>, CONNECT_RESPONSE,
                         encode_connect_response(
                             [invalid_password |-> ~password_valid(m)]))
         IN  IF closing[c] THEN sent
             ELSE IF password_valid(m)
                  THEN [sent EXCEPT !.state = AUTHENTICATED]
                  ELSE close(sent)

\* handle_disconnect_request that closes without acknowledging.
handle_disconnect_request_unacknowledged(c, m, env) == close(Cur(c))

handle_disconnect_request(c, m, env) ==
    LET sent == send_message(c, <<>>, DISCONNECT_RESPONSE, <<>>)
    IN  IF closing[c] THEN sent ELSE close(sent)

\* handle_device_info_request that does not look at the password in state
\* Connected.
handle_device_info_request_any_connected(c, m, env) ==
    IF ~ \/ state[c] = CONNECTED
         \/ state[c] = AUTHENTICATED
    THEN Cur(c)
    ELSE LET got == get_device_info(env)
         IN  IF got.info = None
             THEN [close([Cur(c) EXCEPT !.events = got.events])
                      EXCEPT !.exited = TRUE]
             ELSE [send_message(c, got.events, DEVICE_INFO_RESPONSE,
                                encode_device_info_response(got.info[1]))
                      EXCEPT !.mac = got.mac]

handle_device_info_request(c, m, env) ==
    IF ~ \/ state[c] = CONNECTED /\ password = None
         \/ state[c] = AUTHENTICATED
    THEN Cur(c)
    ELSE LET got == get_device_info(env)
         IN  IF got.info = None
             \* sys.exit(1): SystemExit is not an Exception, it unwinds
             \* through handle_connection's finally, which closes.
             THEN [close([Cur(c) EXCEPT !.events = got.events])
                      EXCEPT !.exited = TRUE]
             ELSE [send_message(c, got.events, DEVICE_INFO_RESPONSE,
                                encode_device_info_response(got.info[1]))
                      EXCEPT !.mac = got.mac]

\* _handle_message looks up self._handle_list_entities_request, which
\* APIConnection does not define: AttributeError, caught and logged.
handle_list_entities_request(c, m, env) == Cur(c)

handle_ping_request(c, m, env) ==
    send_message(c, <<>>, PING_RESPONSE, <<>>)

\* The coordinator's answer to connect_device / disconnect_device is the
\* environment's here.
handle_bluetooth_device_request(c, m, env) ==
    IF ~m.decodes THEN Cur(c)
    ELSE IF ~proxy_attached THEN Cur(c)
    ELSE LET call == CASE m.action = 0 -> <<Call("connect_device")>>
                       [] m.action = 1 -> <<Call("disconnect_device")>>
                       [] OTHER -> <<>>
             success == IF m.action \in {0, 1} THEN env.success ELSE FALSE
         IN  IF success THEN [Cur(c) EXCEPT !.events = call]
             ELSE send_message(c, call, BLUETOOTH_DEVICE_CONNECTION_RESPONSE,
                      encode_bluetooth_device_connection_response(
                          [address |-> m.address, connected |-> FALSE,
                           mtu |-> 0, error |-> 1]))

\* With the device's slot connected, services are discovered on it and one
\* response is sent, with the services found or, when discovery raises,
\* with none; the service list is left out of the payload here.
handle_bluetooth_gatt_get_services_request(c, m, env) ==
    IF ~proxy_attached THEN Cur(c)
    ELSE IF ~env.success THEN Cur(c)
    ELSE send_message(c, <<Call("discover_services")>>,
                      BLUETOOTH_GATT_GET_SERVICES_RESPONSE,
                      Field(1, m.address, TRUE))

\* The read, write and notify requests are handed to the GATT dispatcher
\* when one is attached.
handle_bluetooth_gatt_request(c, m, env) ==
    IF ~proxy_attached THEN Cur(c)
    ELSE [Cur(c) EXCEPT !.events = <<Call("gatt_request")>>]

\* A type below BLUETOOTH_GATT_NOTIFY_REQUEST in the elif chain: evaluating
\* MessageType.BLUETOOTH_GATT_READ_DESCRIPTOR_REQUEST raises AttributeError,
\* caught and logged.
handle_unlisted(c, m, env) == Cur(c)

handle_message(c, m, env) ==
    CASE m.type = HELLO_REQUEST -> handle_hello_request(c, m, env)
      [] m.type = CONNECT_REQUEST -> handle_connect_request(c, m, env)
      [] m.type = DISCONNECT_REQUEST -> handle_disconnect_request(c, m, env)
      [] m.type = DEVICE_INFO_REQUEST -> handle_device_info_request(c, m, env)
      [] m.type = LIST_ENTITIES_REQUEST ->
             handle_list_entities_request(c, m, env)
      [] m.type = PING_REQUEST -> handle_ping_request(c, m, env)
      [] m.type = BLUETOOTH_DEVICE_REQUEST ->
             handle_bluetooth_device_request(c, m, env)
      [] m.type = BLUETOOTH_GATT_GET_SERVICES_REQUEST ->
             handle_bluetooth_gatt_get_services_request(c, m, env)
      [] m.type \in GattTypes -> handle_bluetooth_gatt_request(c, m, env)
      [] OTHER -> handle_unlisted(c, m, env)

(***************************************************************************)
(* Steps.                                                                  *)
(***************************************************************************)
Step(op, c, m) ==
    [op |-> op, conn |-> c, msg |-> m,
     state |-> state[c], closing |-> closing[c],
     subscribed_to_states |-> subscribed_to_states[c]]

\* BluetoothProxy.__init__: not running, no pool yet, nothing connected.
ProxyConstructed ==
    /\ running = FALSE
    /\ stopping = FALSE
    /\ connection_pool = <<>>
    /\ proxy_connections = <<>>
    /\ tasks = EmptyBag
    /\ released = FALSE
    /\ scanning_enabled = FALSE
    /\ scanning = FALSE
    /\ subscribed_connections = {}

\* AdvertisementBatcher.__init__: an empty buffer, no timer, and
\* last_flush_time 0.
BatcherConstructed ==
    /\ advertisement_batch = <<>>
    /\ flush_timer = FALSE
    /\ flush_tasks = 0
    /\ last_flush_time = 0
    /\ waited = FALSE
    /\ appended = 0
    /\ sent_batch = <<>>
    /\ sent_before = 0

\* No request awaited on a connection.
NoOp ==
    [kind |-> "none", address |-> 0, handle |-> 0, response |-> FALSE,
     enable |-> FALSE, slot |-> 0, before |-> "absent"]

\* GATTOperationHandler.__init__: no subscriptions.
GattConstructed ==
    /\ notification_subscriptions = <<>>
    /\ gatt_ops = [c \in Conns |-> NoOp]
    /\ notify_tasks = EmptyBag

\* A receive loop that has read nothing, on a connection whose peer sends
\* nothing.
NothingReceived ==
    /\ socket_bytes = <<>>
    /\ received = 0
    /\ buffer = <<>>
    /\ handled = <<>>
    /\ loop = "reading"

\* ESPHomeAPIServer.__init__: not running, no listener, no shutdown
\* requested; the task that will await start() exists.
ServerConstructed ==
    /\ server_running = FALSE
    /\ shutdown_requested = FALSE
    /\ server = "none"
    /\ main_task = "created"
    /\ shutdown_tasks = 0
    /\ shutdown_pc = "none"
    /\ cancelled = {}
    /\ loop_stopped = FALSE
    /\ signals = 0

Init ==
    /\ password \in ConfiguredPasswords
    /\ active_connections = FALSE
    /\ proxy_attached \in BOOLEAN
    /\ bluetooth_mac_address = None
    /\ exited = FALSE
    /\ connections = {}
    /\ pc = [c \in Conns |-> "free"]
    /\ state = [c \in Conns |-> CONNECTING]
    /\ closing = [c \in Conns |-> FALSE]
    /\ client_info = [c \in Conns |-> ""]
    /\ subscribed_to_states = [c \in Conns |-> FALSE]
    /\ buffered = [c \in Conns |-> 0]
    /\ last = [op |-> "init", conn |-> 0, msg |-> NoMsg, state |-> CONNECTING,
               closing |-> FALSE, subscribed_to_states |-> FALSE]
    /\ events = <<>>
    /\ ProxyConstructed
    /\ BatcherConstructed
    /\ GattConstructed
    /\ NothingReceived
    /\ ServerConstructed

\* api_server.py _handle_client: a client is accepted, its APIConnection is
\* constructed and appended to the server's list.
Accept(c) ==
    /\ ~exited
    /\ pc[c] = "free"
    /\ \A d \in Conns : d < c => pc[d] # "free"
    /\ pc' = [pc EXCEPT ![c] = "read"]
    /\ connections' = connections \cup {c}
    /\ last' = Step("accept", c, NoMsg)
    /\ events' = <<>>
    /\ UNCHANGED <<config_vars, bluetooth_mac_address, exited, state, closing,
                   client_info, subscribed_to_states, buffered>>
    /\ UNCHANGED beside_api

\* The fields of an APIConnection that has been dropped.
Dropped ==
    [state |-> CONNECTING, closing |-> TRUE, client_info |-> "",
     subscribed_to_states |-> FALSE]

\* _handle_message on connection c for request m, with rest complete frames
\* left in the buffer after it.  When the handler has closed the writer and
\* the buffer is used up, _handle_messages finds the writer closing and
\* returns, and _handle_client removes the connection from the list.
Handle(c, m, env, rest) ==
    \E r \in {handle_message(c, m, env)} :
    LET over == r.closing /\ rest = 0
        f == IF over THEN Dropped ELSE r
    IN  /\ state' = [state EXCEPT ![c] = f.state]
        /\ closing' = [closing EXCEPT ![c] = f.closing]
        /\ client_info' = [client_info EXCEPT ![c] = f.client_info]
        /\ subscribed_to_states' =
               [subscribed_to_states EXCEPT ![c] = f.subscribed_to_states]
        /\ bluetooth_mac_address' = r.mac
        /\ exited' = r.exited
        /\ events' = r.events
        /\ buffered' = [buffered EXCEPT ![c] = rest]
        /\ pc' = [pc EXCEPT ![c] = IF over THEN "done"
                                   ELSE IF rest = 0 THEN "read"
                                   ELSE "dispatch"]
        /\ connections' = IF over THEN connections \ {c} ELSE connections
        /\ last' = Step("dispatch", c, m)
        /\ UNCHANGED config_vars
        /\ UNCHANGED beside_api

\* _handle_messages: a read returns data that completes n frames, and the
\* first of them is parsed and dispatched.
Receive(c, n, m, env) ==
    /\ ~exited
    /\ pc[c] = "read"
    /\ Handle(c, m, env, n - 1)

\* _handle_messages: the inner loop parses and dispatches the next frame of
\* the buffer; it does not look at the writer.
DispatchBuffered(c, m, env) ==
    /\ ~exited
    /\ pc[c] = "dispatch"
    /\ Handle(c, m, env, buffered[c] - 1)

\* _handle_messages leaves its loop on end of stream, the 30 s timeout, a
\* read error or a malformed frame; handle_connection closes and
\* _handle_client removes the connection from the list.
ReadEnds_stays_listed(c, why) ==
    /\ ~exited
    /\ pc[c] = "read"
    /\ closing' = [closing EXCEPT ![c] = TRUE]
    /\ pc' = [pc EXCEPT ![c] = "done"]
    /\ connections' = connections
    /\ state' = [state EXCEPT ![c] = Dropped.state]
    /\ client_info' = [client_info EXCEPT ![c] = Dropped.client_info]
    /\ subscribed_to_states' =
           [subscribed_to_states EXCEPT ![c] = Dropped.subscribed_to_states]
    /\ last' = Step(why, c, NoMsg)
    /\ events' = close(Cur(c)).events
    /\ UNCHANGED <<config_vars, bluetooth_mac_address, exited, buffered>>
    /\ UNCHANGED beside_api

ReadEnds(c, why) ==
    /\ ~exited
    /\ pc[c] = "read"
    /\ closing' = [closing EXCEPT ![c] = TRUE]
    /\ pc' = [pc EXCEPT ![c] = "done"]
    /\ connections' = connections \ {c}
    /\ state' = [state EXCEPT ![c] = Dropped.state]
    /\ client_info' = [client_info EXCEPT ![c] = Dropped.client_info]
    /\ subscribed_to_states' =
           [subscribed_to_states EXCEPT ![c] = Dropped.subscribed_to_states]
    /\ last' = Step(why, c, NoMsg)
    /\ events' = close(Cur(c)).events
    /\ UNCHANGED <<config_vars, bluetooth_mac_address, exited, buffered>>
    /\ UNCHANGED beside_api

ReadEndReasons == {"eof", "timeout", "error", "protocol_error"}

Next ==
    \/ \E c \in Conns : Accept(c)
    \/ \E c \in Conns, n \in 1..MaxFrames, m \in Requests :
           \E env \in EnvsOf(m) : Receive(c, n, m, env)
    \/ \E c \in Conns, m \in Requests : \E env \in EnvsOf(m) :
           DispatchBuffered(c, m, env)
    \/ \E c \in Conns, why \in ReadEndReasons : ReadEnds(c, why)

Spec == Init /\ [][Next]_vars


(***************************************************************************)
(* Properties of the connection state machine.                             *)
(***************************************************************************)
Dispatched == last.op = "dispatch"

\* The events of the last step that reached the client or left the
\* connection object: frames written on an open transport, and calls into
\* the BLE coordinator, a slot or the GATT dispatcher.
IsWrite(e) == e.ev = "write"
IsBleCall(e) ==
    e.ev \in {"connect_device", "disconnect_device", "discover_services",
              "gatt_request"}
Written == SelectSeq(events, IsWrite)
BleCalls == SelectSeq(events, IsBleCall)

\* C1: a connection's state becomes Authenticated only in the step that
\* handles, in state Connected, a Connect request whose password is valid
\* (no password is configured, or the request carries the configured one).
C1_AuthenticatedOnlyByValidConnect ==
    [][\A c \in Conns :
          (state'[c] = AUTHENTICATED /\ state[c] # AUTHENTICATED)
              => /\ last'.op = "dispatch"
                 /\ last'.conn = c
                 /\ last'.msg.type = CONNECT_REQUEST
                 /\ state[c] = CONNECTED
                 /\ \/ password = None
                    \/ last'.msg.password = password[1]]_vars

C1_Witness ==
    /\ Dispatched
    /\ last.msg.type = CONNECT_REQUEST
    /\ last.state = CONNECTED
    /\ password = Some("secret")
    /\ last.msg.password = "secret"
    /\ state[last.conn] = AUTHENTICATED

\* C2: with a password configured, a Connect request carrying another
\* password, handled in state Connected on an open connection, writes a
\* ConnectResponse with invalid_password = true and after that closes the
\* connection; the state does not become Authenticated.
C2_BadPasswordAnsweredThenClosed ==
    ( /\ Dispatched
      /\ last.msg.type = CONNECT_REQUEST
      /\ last.msg.decodes
      /\ last.state = CONNECTED
      /\ password # None
      /\ last.msg.password # password[1] )
        => /\ state[last.conn] # AUTHENTICATED
           /\ closing[last.conn]
           /\ ~last.closing =>
                  events = <<Write(CONNECT_RESPONSE,
                                   <<[field |-> 1, value |-> TRUE]>>),
                             Call("close")>>

C2_Witness ==
    /\ Dispatched
    /\ last.msg.type = CONNECT_REQUEST
    /\ last.state = CONNECTED
    /\ ~last.closing
    /\ password = Some("secret")
    /\ last.msg.password = "nope"
    /\ Len(events) = 2
    /\ state[last.conn] = CONNECTED
    /\ closing[last.conn]

\* C3 (as claimed): a Ping, ListEntities, SubscribeStates,
\* BluetoothDeviceRequest, GATT get-services or GATT read/write/notify
\* request handled in state Connecting or Connected writes no response and
\* makes no call into the BLE coordinator or the GATT dispatcher.
C3_Claimed_OtherRequestsNeedAuthenticated ==
    ( /\ Dispatched
      /\ last.msg.type \notin {HELLO_REQUEST, CONNECT_REQUEST,
                               DISCONNECT_REQUEST, DEVICE_INFO_REQUEST}
      /\ last.state \in {CONNECTING, CONNECTED} )
        => Written = <<>> /\ BleCalls = <<>>

\* C4 (as claimed): a Hello request handled in state Connected or
\* Authenticated closes the connection and writes no HelloResponse.
C4_Claimed_UnexpectedHelloCloses ==
    ( /\ Dispatched
      /\ last.msg.type = HELLO_REQUEST
      /\ last.state # CONNECTING )
        => closing[last.conn] /\ Written = <<>>


\* C5: on an open connection a DeviceInfo request is answered with one
\* DeviceInfoResponse exactly when the state is Authenticated, or is
\* Connected with no password configured (the process exits instead when
\* the adapter MAC cannot be found); on a closing connection nothing is
\* written.  The handler leaves the connection state as it was.
DeviceInfoPermitted ==
    \/ last.state = AUTHENTICATED
    \/ last.state = CONNECTED /\ password = None

C5_DeviceInfoAnsweredIffPermitted ==
    ( /\ Dispatched
      /\ last.msg.type = DEVICE_INFO_REQUEST
      /\ ~exited )
        => /\ IF DeviceInfoPermitted /\ ~last.closing
              THEN /\ Len(Written) = 1
                   /\ Written[1].type = DEVICE_INFO_RESPONSE
              ELSE Written = <<>>
           /\ pc[last.conn] # "done" => state[last.conn] = last.state

C5_Witness ==
    /\ Dispatched
    /\ last.msg.type = DEVICE_INFO_REQUEST
    /\ last.state = CONNECTED
    /\ password = None
    /\ Len(Written) = 1
    /\ Written[1].type = DEVICE_INFO_RESPONSE
    /\ state[last.conn] = CONNECTED

\* C6: a connection leaves state Connecting only in the step that handles
\* a Hello request on it; every other request handled in state Connecting
\* leaves the state Connecting.
C6_ConnectingLeftOnlyByHello ==
    [][\A c \in Conns :
          (state[c] = CONNECTING /\ state'[c] # CONNECTING)
              => /\ last'.op = "dispatch"
                 /\ last'.conn = c
                 /\ last'.msg.type = HELLO_REQUEST]_vars

C6_Witness ==
    /\ Dispatched
    /\ last.msg.type = CONNECT_REQUEST
    /\ last.msg.decodes
    /\ last.state = CONNECTING
    /\ ~last.closing
    /\ pc[last.conn] # "done"
    /\ state[last.conn] = CONNECTING

\* C7: a Disconnect request handled on an open connection in any state
\* writes a DisconnectResponse and after that closes the connection.
C7_DisconnectAcknowledgedThenClosed ==
    ( /\ Dispatched
      /\ last.msg.type = DISCONNECT_REQUEST
      /\ ~last.closing )
        => /\ events = <<Write(DISCONNECT_RESPONSE, <<>>), Call("close")>>
           /\ closing[last.conn]

C7_Witness ==
    /\ Dispatched
    /\ last.msg.type = DISCONNECT_REQUEST
    /\ ~last.closing
    /\ last.state = AUTHENTICATED
    /\ Len(events) = 2
    /\ closing[last.conn]

\* C8: a Connect request handled in state Authenticated does nothing,
\* whatever its password: nothing is written, the connection is not
\* closed, the state stays Authenticated and subscribed_to_states keeps its
\* value.
C8_ConnectWhenAuthenticatedIgnored ==
    ( /\ Dispatched
      /\ last.msg.type = CONNECT_REQUEST
      /\ last.state = AUTHENTICATED )
        => /\ events = <<>>
           /\ closing[last.conn] = last.closing
           /\ pc[last.conn] # "done" =>
                  /\ state[last.conn] = AUTHENTICATED
                  /\ subscribed_to_states[last.conn] =
                         last.subscribed_to_states

C8_Witness ==
    /\ Dispatched
    /\ last.msg.type = CONNECT_REQUEST
    /\ last.msg.decodes
    /\ last.msg.password = "nope"
    /\ password = Some("secret")
    /\ last.state = AUTHENTICATED
    /\ ~last.closing
    /\ state[last.conn] = AUTHENTICATED
    /\ ~closing[last.conn]

\* What a reader of a HelloResponse payload gets: the fields present, and
\* the HelloResponse dataclass's defaults for the others.
FieldOr(payload, n, default) ==
    IF \E i \in 1..Len(payload) : payload[i].field = n
    THEN payload[CHOOSE i \in 1..Len(payload) : payload[i].field = n].value
    ELSE default

decode_hello_response(payload) ==
    [api_version_major |-> FieldOr(payload, 1, 1),
     api_version_minor |-> FieldOr(payload, 2, 10),
     server_info |-> FieldOr(payload, 3, ""),
     name |-> FieldOr(payload, 4, "")]

C10_Claimed_ListEntitiesAnsweredWithDone ==
    ( /\ Dispatched
      /\ last.msg.type = LIST_ENTITIES_REQUEST
      /\ last.state = AUTHENTICATED
      /\ ~last.closing )
        => /\ events = <<Write(LIST_ENTITIES_DONE_RESPONSE, <<>>)>>
           /\ state[last.conn] = AUTHENTICATED
           /\ ~closing[last.conn]

\* C11 (as claimed): a SubscribeStates request (wire type 20) handled on an
\* open Authenticated connection sets subscribed_to_states, writes exactly
\* one message to that client and leaves the connection Authenticated;
\* handled in another state it leaves subscribed_to_states false and writes
\* nothing.
C11_Claimed_SubscribeStatesMarksAndAnswers ==
    ( /\ Dispatched
      /\ last.msg.type = 20
      /\ ~last.closing )
        => IF last.state = AUTHENTICATED
           THEN /\ subscribed_to_states[last.conn]
                /\ Len(Written) = 1
                /\ state[last.conn] = AUTHENTICATED
           ELSE /\ ~subscribed_to_states[last.conn]
                /\ Written = <<>>


(***************************************************************************)
(* The BLE coordinator (bluetooth_proxy.py) and its pool of connection     *)
(* slots (ble_connection.py).                                              *)
(*                                                                         *)
(* connect_device and disconnect_device create the tasks that run a slot's *)
(* connect() and disconnect(); a task is a record with the slot it runs    *)
(* on, where it is (created, or awaiting the backend call) and, for a      *)
(* connect task, whether the slot's client is still the BleakClient it     *)
(* made.  A slot's client is "none", "created" (a BleakClient whose        *)
(* is_connected is false) or "connected".  The coordinator is taken to     *)
(* have been started with AdvertisementBatcher's constructor completing.   *)
(***************************************************************************)
MaxSlots == 2
MaxTasks == 2

max_connections == MaxSlots
DeviceAddresses == 1..(max_connections + 1)

\* ble_connection.py: ConnectionState
SLOT_DISCONNECTED == 0
SLOT_CONNECTING == 1
SLOT_CONNECTED == 2
SLOT_DISCONNECTING == 3

\* What a device offers: its GATT services and the handles that notify.
DeviceServices == {"service"}
NotifyHandles == {1}

\* BLEConnection.__init__(0, 0, proxy)
BLEConnection ==
    [address |-> 0, state |-> SLOT_DISCONNECTED, client |-> "none",
     services |-> {}, notification_handlers |-> {}]

Slots == DOMAIN connection_pool

\* BLEConnection.is_connected
is_connected(slot) == slot.state = SLOT_CONNECTED /\ slot.client = "connected"

Task(i, kind, by) ==
    [slot |-> i, kind |-> kind, pc |-> "created", own |-> FALSE, by |-> by]

\* tasks is a bag: two tasks at the same place on the same slot are two
\* tasks.
Spawn(ts, t) == ts (+) SetToBag({t})
Ended(ts, t) == ts (-) SetToBag({t})
Copies(ts, t) == IF t \in DOMAIN ts THEN ts[t] ELSE 0

\* The tasks after the slot's client attribute has been overwritten: no
\* connect task awaiting on slot i owns the slot's client any more.
Disowned(ts, i) ==
    LET plain == {IF t.slot = i THEN [t EXCEPT !.own = FALSE] ELSE t :
                     t \in DOMAIN ts}
    IN  [t \in plain |->
            Copies(ts, t)
                + (IF t.slot = i THEN Copies(ts, [t EXCEPT !.own = TRUE])
                   ELSE 0)]

MapWithout(map, a) == [b \in DOMAIN map \ {a} |-> map[b]]
MapWith(map, a, i) ==
    [b \in DOMAIN map \cup {a} |-> IF b = a THEN i ELSE map[b]]

\* The value a coordinator call computes: what it returns, the pool, the
\* map and the tasks after it.
ProxyResult(ok, pool, map, ts) ==
    [success |-> ok, pool |-> pool, connections |-> map, tasks |-> ts]

\* connect_device with the slot search left out: the first slot is taken
\* whatever it holds.
connect_device_without_slot_search(address) ==
    IF address \in DOMAIN proxy_connections \/ connection_pool = <<>>
    THEN ProxyResult(FALSE, connection_pool, proxy_connections, tasks)
    ELSE ProxyResult(TRUE,
             [connection_pool EXCEPT ![1].address = address],
             MapWith(proxy_connections, address, 1),
             Spawn(tasks, Task(1, "connect", "request")))

\* BluetoothProxy.connect_device
connect_device(address) ==
    IF address \in DOMAIN proxy_connections
    THEN ProxyResult(FALSE, connection_pool, proxy_connections, tasks)
    ELSE LET available ==
                 {i \in Slots : /\ ~is_connected(connection_pool[i])
                                /\ connection_pool[i].address = 0}
         IN  IF available = {}
             THEN ProxyResult(FALSE, connection_pool, proxy_connections,
                              tasks)
             ELSE LET i == CHOOSE k \in available :
                               \A other \in available : k <= other
                  IN  ProxyResult(TRUE,
                          [connection_pool EXCEPT ![i].address = address],
                          MapWith(proxy_connections, address, i),
                          Spawn(tasks, Task(i, "connect", "request")))

\* BluetoothProxy.disconnect_device
disconnect_device(address) ==
    IF address \notin DOMAIN proxy_connections
    THEN ProxyResult(FALSE, connection_pool, proxy_connections, tasks)
    ELSE ProxyResult(TRUE, connection_pool, proxy_connections,
             Spawn(tasks, Task(proxy_connections[address], "disconnect",
                               "request")))

\* BluetoothProxy.on_device_connected: nothing is sent to the API clients;
\* with connected false the address leaves the map and its slot is reset.
on_device_connected(pool, map, address, connected) ==
    IF ~connected /\ address \in DOMAIN map
    THEN [pool |-> [pool EXCEPT ![map[address]].address = 0],
          connections |-> MapWithout(map, address)]
    ELSE [pool |-> pool, connections |-> map]

\* BluetoothDeviceRequest frames of the API client, over the addresses of
\* one device more than the pool has slots.
ProxyDeviceMsgs ==
    {[Msg(BLUETOOTH_DEVICE_REQUEST) EXCEPT !.action = a, !.address = d] :
        a \in 0..1, d \in DeviceAddresses}

\* The coordinator with one API client: connection 1, authenticated, with
\* the coordinator attached to it.
ProxyInit ==
    /\ password = None
    /\ active_connections = FALSE
    /\ proxy_attached = TRUE
    /\ bluetooth_mac_address = None
    /\ exited = FALSE
    /\ connections = {1}
    /\ pc = [c \in Conns |-> IF c = 1 THEN "read" ELSE "free"]
    /\ state = [c \in Conns |-> IF c = 1 THEN AUTHENTICATED ELSE CONNECTING]
    /\ closing = [c \in Conns |-> FALSE]
    /\ client_info = [c \in Conns |-> ""]
    /\ subscribed_to_states = [c \in Conns |-> FALSE]
    /\ buffered = [c \in Conns |-> 0]
    /\ last = [op |-> "init", conn |-> 0, msg |-> NoMsg, state |-> CONNECTING,
               closing |-> FALSE, subscribed_to_states |-> FALSE]
    /\ events = <<>>
    /\ ProxyConstructed
    /\ BatcherConstructed
    /\ GattConstructed
    /\ NothingReceived
    /\ ServerConstructed

\* The addresses a request can name: those the coordinator holds, in the map
\* or in a slot, and one that it does not hold.  Addresses are only compared
\* for equality, so one address stands for all that are not held.
HeldAddresses ==
    (DOMAIN proxy_connections
        \cup {connection_pool[i].address : i \in Slots}) \ {0}

NamedAddresses ==
    HeldAddresses
        \cup {a \in DeviceAddresses \ HeldAddresses :
                 \A b \in DeviceAddresses \ HeldAddresses : a <= b}

\* What every coordinator step assigns.
ProxyAssign(pool, map, ts, evs) ==
    /\ connection_pool' = pool
    /\ proxy_connections' = map
    /\ tasks' = ts
    /\ events' = evs
    /\ UNCHANGED beside_proxy

\* A coordinator step that leaves the scanner and the subscribers alone.
ProxyUpdate(pool, map, ts, evs) ==
    /\ ProxyAssign(pool, map, ts, evs)
    /\ UNCHANGED scan_vars

\* A slot's address goes back to 0 in this step.
Releases(pool) ==
    \E i \in Slots : connection_pool[i].address # 0 /\ pool[i].address = 0

\* BluetoothProxy._start_scanning: nothing when scanning_enabled is set;
\* otherwise BLEScanner.start_scanning(active=True), after which
\* scanning_enabled is set unless the backend raised.
start_scanning(enabled, scanner_scanning, ok) ==
    IF enabled
    THEN [scanning_enabled |-> enabled, scanning |-> scanner_scanning,
          events |-> <<>>]
    ELSE IF scanner_scanning
    THEN [scanning_enabled |-> TRUE, scanning |-> TRUE, events |-> <<>>]
    ELSE [scanning_enabled |-> ok, scanning |-> ok,
          events |-> <<Call("BleakScanner.start")>>]

\* BluetoothProxy.start: a new scanner, _initialize_connection_pool fills
\* the pool, and _start_scanning is awaited.
Start(scan_ok) ==
    /\ ~running
    /\ connection_pool = <<>>
    /\ running' = TRUE
    /\ \E r \in {start_scanning(scanning_enabled, FALSE, scan_ok)} :
          /\ scanning_enabled' = r.scanning_enabled
          /\ scanning' = r.scanning
          /\ ProxyAssign([i \in 1..max_connections |-> BLEConnection],
                         proxy_connections, tasks, r.events)
    /\ UNCHANGED <<stopping, released, subscribed_connections>>

\* _handle_bluetooth_device_request on the API client's connection, with
\* the coordinator call it makes.
DeviceRequest(m) ==
    /\ m.address \in NamedAddresses
    /\ \E res \in {IF m.action = 0 THEN connect_device(m.address)
                   ELSE disconnect_device(m.address)} :
       \E r \in {handle_bluetooth_device_request(
                     1, m, [NoEnv EXCEPT !.success = res.success])} :
          /\ BagCardinality(res.tasks) <= MaxTasks
          /\ ProxyUpdate(res.pool, res.connections, res.tasks, r.events)
    /\ UNCHANGED <<running, stopping, released>>

\* BLEConnection.connect up to its await of BleakClient.connect; it returns
\* at once unless the slot is Disconnected.
RunConnect(t) ==
    /\ t.kind = "connect" /\ t.pc = "created"
    /\ LET i == t.slot
           slot == connection_pool[i]
       IN  IF slot.state # SLOT_DISCONNECTED
           THEN ProxyUpdate(connection_pool, proxy_connections,
                    Ended(tasks, t), <<>>)
           ELSE ProxyUpdate(
                    [connection_pool EXCEPT ![i].state = SLOT_CONNECTING,
                                            ![i].client = "created"],
                    proxy_connections,
                    Spawn(Disowned(Ended(tasks, t), i),
                          [t EXCEPT !.pc = "awaiting", !.own = TRUE]),
                    <<Call("BleakClient.connect")>>)
    /\ UNCHANGED <<running, stopping, released>>

\* BLEConnection.connect after BleakClient.connect has returned (ok) or
\* raised.
ConnectEnds(t, ok) ==
    /\ t.kind = "connect" /\ t.pc = "awaiting"
    /\ LET i == t.slot
           slot == connection_pool[i]
           pool == IF ok
                   THEN [connection_pool EXCEPT
                            ![i].state = SLOT_CONNECTED,
                            ![i].client = IF t.own THEN "connected" ELSE @]
                   ELSE [connection_pool EXCEPT
                            ![i].state = SLOT_DISCONNECTED,
                            ![i].client = "none"]
           after == on_device_connected(pool, proxy_connections,
                                        slot.address, ok)
       IN  /\ ProxyUpdate(after.pool, after.connections,
                  IF ok THEN Ended(tasks, t)
                  ELSE Disowned(Ended(tasks, t), i),
                  <<>>)
           /\ released' = (released \/ Releases(after.pool))
    /\ UNCHANGED <<running, stopping>>

\* The state and client a slot has when disconnect() finishes.
Disconnected(pool, i) ==
    [pool EXCEPT ![i].state = SLOT_DISCONNECTED, ![i].client = "none"]

\* BLEConnection.disconnect up to its await of BleakClient.disconnect, or
\* to its end when there is no connected client to await.
RunDisconnect(t) ==
    /\ t.kind = "disconnect" /\ t.pc = "created"
    /\ LET i == t.slot
           slot == connection_pool[i]
           cleared == [connection_pool EXCEPT
                          ![i].state = SLOT_DISCONNECTING,
                          ![i].notification_handlers = {}]
           after == on_device_connected(Disconnected(cleared, i),
                                        proxy_connections, slot.address,
                                        FALSE)
       IN  IF slot.state = SLOT_DISCONNECTED
           THEN /\ ProxyUpdate(connection_pool, proxy_connections,
                       Ended(tasks, t), <<>>)
                /\ UNCHANGED released
           ELSE IF slot.client = "connected"
           THEN /\ ProxyUpdate(cleared, proxy_connections,
                       Spawn(Ended(tasks, t), [t EXCEPT !.pc = "awaiting"]),
                       <<Call("BleakClient.disconnect")>>)
                /\ UNCHANGED released
           ELSE /\ ProxyUpdate(after.pool, after.connections,
                       Disowned(Ended(tasks, t), i), <<>>)
                /\ released' = (released \/ Releases(after.pool))
    /\ UNCHANGED <<running, stopping>>

\* BLEConnection.disconnect after BleakClient.disconnect has returned (ok)
\* or raised.
DisconnectEnds(t, ok) ==
    /\ t.kind = "disconnect" /\ t.pc = "awaiting"
    /\ LET i == t.slot
           slot == connection_pool[i]
           pool == Disconnected(connection_pool, i)
           after == IF ok
                    THEN on_device_connected(pool, proxy_connections,
                                             slot.address, FALSE)
                    ELSE [pool |-> pool, connections |-> proxy_connections]
       IN  /\ ProxyUpdate(after.pool, after.connections,
                  Disowned(Ended(tasks, t), i), <<>>)
           /\ released' = (released \/ Releases(after.pool))
    /\ UNCHANGED <<running, stopping>>

\* The device drops the link: the slot's BleakClient.is_connected turns
\* false; no callback of the slot runs.
LinkLost(i) ==
    /\ connection_pool[i].client = "connected"
    /\ ProxyUpdate([connection_pool EXCEPT ![i].client = "created"],
                   proxy_connections, tasks, <<>>)
    /\ UNCHANGED <<running, stopping, released>>

\* _handle_bluetooth_gatt_get_services_request for a connected device:
\* BLEConnection.discover_services fills the slot's service list.
DiscoverServices(a) ==
    /\ a \in DOMAIN proxy_connections
    /\ is_connected(connection_pool[proxy_connections[a]])
    /\ \E r \in {handle_bluetooth_gatt_get_services_request(
                     1, [Msg(BLUETOOTH_GATT_GET_SERVICES_REQUEST)
                         EXCEPT !.address = a], NoEnv)} :
          ProxyUpdate([connection_pool EXCEPT
                          ![proxy_connections[a]].services = DeviceServices],
                      proxy_connections, tasks, r.events)
    /\ UNCHANGED <<running, stopping, released>>

\* GATTOperationHandler.handle_gatt_notify_request with enable, for a
\* connected device: BLEConnection.start_notify records the handler when
\* the backend call returns, and nothing when it raises.
StartNotify(a, h, ok) ==
    /\ a \in DOMAIN proxy_connections
    /\ is_connected(connection_pool[proxy_connections[a]])
    /\ ProxyUpdate(
           [connection_pool EXCEPT
               ![proxy_connections[a]].notification_handlers =
                   IF ok THEN @ \cup {h} ELSE @],
           proxy_connections, tasks, <<Call("BleakClient.start_notify")>>)
    /\ UNCHANGED <<running, stopping, released>>

\* The disconnect() coroutines that stop() hands to asyncio.gather, one for
\* each connected device of the map.
GatherTasks(targets) ==
    SetToBag({Task(proxy_connections[a], "disconnect", "stop") :
                 a \in targets})

\* BluetoothProxy.stop up to its await of the gathered disconnects: the
\* scanner is stopped, scanning_enabled is left as it is; with no connected
\* device stop runs to its end.
StopBegin ==
    /\ running /\ ~stopping
    /\ LET targets == {a \in DOMAIN proxy_connections :
                          is_connected(connection_pool[proxy_connections[a]])}
       IN  /\ BagCardinality(tasks) + Cardinality(targets) <= MaxTasks
           /\ scanning' = FALSE
           /\ UNCHANGED scanning_enabled
           /\ IF targets = {}
              THEN /\ ProxyAssign(connection_pool, <<>>, tasks, <<>>)
                   /\ subscribed_connections' = {}
                   /\ running' = FALSE
                   /\ released' = TRUE
                   /\ UNCHANGED stopping
              ELSE /\ ProxyAssign(connection_pool, proxy_connections,
                          tasks (+) GatherTasks(targets), <<>>)
                   /\ stopping' = TRUE
                   /\ UNCHANGED <<running, released, subscribed_connections>>

\* BluetoothProxy.stop after the gathered disconnects have ended: the map is
\* cleared and running becomes false.
StopEnd ==
    /\ stopping
    /\ \A t \in DOMAIN tasks : t.by # "stop"
    /\ ProxyAssign(connection_pool, <<>>, tasks, <<>>)
    /\ subscribed_connections' = {}
    /\ UNCHANGED <<scanning_enabled, scanning>>
    /\ running' = FALSE
    /\ stopping' = FALSE
    /\ released' = TRUE
ProxyNext ==
    \/ Start(TRUE)
    \/ \E m \in ProxyDeviceMsgs : DeviceRequest(m)
    \/ \E t \in DOMAIN tasks : RunConnect(t)
    \/ \E t \in DOMAIN tasks, ok \in BOOLEAN : ConnectEnds(t, ok)
    \/ \E t \in DOMAIN tasks : RunDisconnect(t)
    \/ \E t \in DOMAIN tasks, ok \in BOOLEAN : DisconnectEnds(t, ok)
    \/ \E i \in Slots : LinkLost(i)
    \/ StopBegin
    \/ StopEnd

ProxySpec == ProxyInit /\ [][ProxyNext]_vars

\* The tasks that connect_device, disconnect_device and stop create are run
\* by the event loop, and a backend call that a task awaits returns or
\* raises.
FairProxySpec ==
    /\ ProxySpec
    /\ WF_vars(\E t \in DOMAIN tasks : RunConnect(t))
    /\ WF_vars(\E t \in DOMAIN tasks, ok \in BOOLEAN : ConnectEnds(t, ok))
    /\ WF_vars(\E t \in DOMAIN tasks : RunDisconnect(t))
    /\ WF_vars(\E t \in DOMAIN tasks, ok \in BOOLEAN : DisconnectEnds(t, ok))

\* The coordinator together with the GATT requests that fill a slot's
\* service list and notification handlers.
GattNext ==
    \/ ProxyNext
    \/ \E a \in DeviceAddresses : DiscoverServices(a)
    \/ \E a \in DeviceAddresses, h \in NotifyHandles, ok \in BOOLEAN :
           StartNotify(a, h, ok)

GattSpec == ProxyInit /\ [][GattNext]_vars


(***************************************************************************)
(* Properties of the coordinator and its slot pool.                        *)
(***************************************************************************)
HeldSlots == {i \in Slots : connection_pool[i].address # 0}

\* The BluetoothDeviceConnectionResponse frame that rejects a request for
\* address a: connected = false, error = 1.
Rejection(a) ==
    Write(BLUETOOTH_DEVICE_CONNECTION_RESPONSE,
          <<[field |-> 1, value |-> a], [field |-> 2, value |-> FALSE],
            [field |-> 4, value |-> 1]>>)

\* The step just taken handled a connect request and rejected it for a.
ConnectRejected(a) == events = <<Call("connect_device"), Rejection(a)>>

\* C12 (as claimed): in every reachable state of the coordinator the number
\* of pool slots with a non-zero address equals the size of the
\* address-to-slot map, no slot of the map has address 0, and the map has at
\* most max_connections entries.
C12_Claimed_SlotsMatchMap ==
    /\ Cardinality(HeldSlots) = Cardinality(DOMAIN proxy_connections)
    /\ \A a \in DOMAIN proxy_connections :
           connection_pool[proxy_connections[a]].address # 0
    /\ Cardinality(DOMAIN proxy_connections) <= max_connections

ConnectionResponseSent(a) ==
    \E k \in 1..Len(events) :
        /\ events[k].ev = "write"
        /\ events[k].type = BLUETOOTH_DEVICE_CONNECTION_RESPONSE
        /\ events[k].payload[1].value = a

\* C14 (as claimed): every connect request the coordinator accepts, which
\* puts the address into the map, eventually leads to a
\* BluetoothDeviceConnectionResponse for that address being written to the
\* API client.
C14_Claimed_AcceptedConnectAnswered ==
    \A a \in DeviceAddresses :
        (a \in DOMAIN proxy_connections) ~> ConnectionResponseSent(a)

\* C15 (as claimed): whenever a slot that holds a device returns to state
\* Disconnected, its address is reset to 0 and the address is no longer in
\* the map.
C15_Claimed_DisconnectedSlotIsReleased ==
    [][\A i \in Slots :
          ( /\ connection_pool[i].address # 0
            /\ connection_pool[i].state # SLOT_DISCONNECTED
            /\ connection_pool'[i].state = SLOT_DISCONNECTED )
              => /\ connection_pool'[i].address = 0
                 /\ connection_pool[i].address \notin DOMAIN proxy_connections'
      ]_vars

\* C16 (as claimed): every slot in state Disconnected has an empty service
\* list and no notification handlers.
C16_Claimed_DisconnectedSlotIsEmpty ==
    \A i \in Slots :
        connection_pool[i].state = SLOT_DISCONNECTED
            => /\ connection_pool[i].services = {}
               /\ connection_pool[i].notification_handlers = {}

\* C17 (as claimed): no two pool slots hold the same non-zero address.
C17_Claimed_NoTwoSlotsShareAddress ==
    \A i, j \in Slots :
        (i # j /\ connection_pool[i].address # 0)
            => connection_pool[i].address # connection_pool[j].address


(***************************************************************************)
(* The advertisement batcher (advertisement_batcher.py).  Advertisements   *)
(* are numbered in the order in which add_advertisement receives them.     *)
(* The clock is read in two places only, both comparing it with            *)
(* last_flush_time: waited says whether FLUSH_TIMEOUT_MS have passed since *)
(* the last flush.  The constructor is taken to complete (its line 47      *)
(* assigns an attribute to a list).                                        *)
(***************************************************************************)
MaxAds == 18
MaxFlushTasks == 2

FLUSH_BATCH_SIZE == 16

Advertisements == 1..MaxAds

Elements(s) == {s[k] : k \in DOMAIN s}

\* AdvertisementBatcher._should_flush: the buffer is full, or the timeout
\* has passed since last_flush_time, which is 0 until the first flush.
should_flush(batch, last_flush, timeout_passed) ==
    \/ Len(batch) >= FLUSH_BATCH_SIZE
    \/ last_flush = 0
    \/ timeout_passed

\* AdvertisementBatcher.add_advertisement: append, then create a flush task
\* or start the timer when none is running.
add_advertisement(batch, timer, last_flush, timeout_passed, advertisement) ==
    LET appended_to == Append(batch, advertisement)
        flush == should_flush(appended_to, last_flush, timeout_passed)
    IN  [advertisement_batch |-> appended_to,
         created |-> IF flush THEN 1 ELSE 0,
         flush_timer |-> IF flush THEN timer ELSE TRUE]

\* The timer callback that creates no flush task.
on_flush_timeout_without_flush(batch) ==
    [flush_timer |-> FALSE, created |-> 0]

\* AdvertisementBatcher._on_flush_timeout
on_flush_timeout(batch) ==
    [flush_timer |-> FALSE, created |-> IF batch # <<>> THEN 1 ELSE 0]

\* flush_batch that sends the buffer and keeps it.
flush_batch_keeping_buffer(batch, timer, last_flush) ==
    IF batch = <<>>
    THEN [advertisement_batch |-> batch, flush_timer |-> timer,
          last_flush_time |-> last_flush, flushed |-> FALSE, sent |-> <<>>]
    ELSE [advertisement_batch |-> batch, flush_timer |-> FALSE,
          last_flush_time |-> 1, flushed |-> TRUE, sent |-> batch]

\* AdvertisementBatcher.flush_batch: nothing on an empty buffer; otherwise
\* cancel the timer, take the whole buffer, clear it, set last_flush_time
\* and pass the copy to send_callback.
flush_batch(batch, timer, last_flush) ==
    IF batch = <<>>
    THEN [advertisement_batch |-> batch, flush_timer |-> timer,
          last_flush_time |-> last_flush, flushed |-> FALSE, sent |-> <<>>]
    ELSE [advertisement_batch |-> <<>>, flush_timer |-> FALSE,
          last_flush_time |-> 1, flushed |-> TRUE, sent |-> batch]

\* AdvertisementBatcher.force_flush
force_flush(batch, timer, last_flush) ==
    IF batch # <<>>
    THEN flush_batch(batch, timer, last_flush)
    ELSE [advertisement_batch |-> batch, flush_timer |-> timer,
          last_flush_time |-> last_flush, flushed |-> FALSE, sent |-> <<>>]

\* AdvertisementBatcher.clear_batch
clear_batch(batch, timer) ==
    [advertisement_batch |-> <<>>, flush_timer |-> FALSE]

SendCallback(batch) == [ev |-> "send_callback", type |-> 0, payload |-> batch]

\* The batcher of a coordinator that serves one API client.
BatcherInit == ProxyInit

\* What a call of flush_batch leaves behind, in a step that has had the
\* effects evs before the call.
Flushing(r, evs) ==
    /\ advertisement_batch' = r.advertisement_batch
    /\ flush_timer' = r.flush_timer
    /\ last_flush_time' = r.last_flush_time
    /\ waited' = IF r.flushed THEN FALSE ELSE waited
    /\ events' = evs \o (IF r.flushed THEN <<SendCallback(r.sent)>> ELSE <<>>)
    /\ sent_batch' = IF r.flushed THEN r.sent ELSE sent_batch
    /\ sent_before' = IF r.flushed /\ sent_batch # <<>>
                      THEN IF sent_batch[Len(sent_batch)] > sent_before
                           THEN sent_batch[Len(sent_batch)]
                           ELSE sent_before
                      ELSE sent_before

Flushed(r) == Flushing(r, <<>>)

\* bluetooth_proxy.py _on_advertisement: the scanner hands over the next
\* advertisement.
AddAdvertisement ==
    /\ appended < MaxAds
    /\ \E r \in {add_advertisement(advertisement_batch, flush_timer,
                                   last_flush_time, waited, appended + 1)} :
          /\ flush_tasks + r.created <= MaxFlushTasks
          /\ advertisement_batch' = r.advertisement_batch
          /\ flush_timer' = r.flush_timer
          /\ flush_tasks' = flush_tasks + r.created
    /\ appended' = appended + 1
    /\ events' = <<>>
    /\ UNCHANGED <<last_flush_time, waited, sent_batch, sent_before>>
    /\ UNCHANGED beside_batcher

\* The event loop runs a flush_batch task.
RunFlush ==
    /\ flush_tasks > 0
    /\ flush_tasks' = flush_tasks - 1
    /\ \E r \in {flush_batch(advertisement_batch, flush_timer,
                             last_flush_time)} : Flushed(r)
    /\ UNCHANGED <<appended, beside_batcher>>

\* The timer set by _start_flush_timer fires, FLUSH_TIMEOUT_MS after it was
\* started.
TimerFires ==
    /\ flush_timer
    /\ \E r \in {on_flush_timeout(advertisement_batch)} :
          /\ flush_tasks + r.created <= MaxFlushTasks
          /\ flush_timer' = r.flush_timer
          /\ flush_tasks' = flush_tasks + r.created
    /\ waited' = TRUE
    /\ events' = <<>>
    /\ UNCHANGED <<advertisement_batch, last_flush_time, appended,
                   sent_batch, sent_before>>
    /\ UNCHANGED beside_batcher

\* FLUSH_TIMEOUT_MS pass after a flush.
TimePasses ==
    /\ last_flush_time # 0
    /\ ~waited
    /\ waited' = TRUE
    /\ events' = <<>>
    /\ UNCHANGED <<advertisement_batch, flush_timer, flush_tasks,
                   last_flush_time, appended, sent_batch, sent_before>>
    /\ UNCHANGED beside_batcher

\* force_flush is awaited with advertisements in the buffer.
ForceFlush ==
    /\ advertisement_batch # <<>>
    /\ \E r \in {force_flush(advertisement_batch, flush_timer,
                             last_flush_time)} : Flushed(r)
    /\ UNCHANGED <<flush_tasks, appended, beside_batcher>>

\* clear_batch is called with advertisements in the buffer.
ClearBatch ==
    /\ advertisement_batch # <<>>
    /\ \E r \in {clear_batch(advertisement_batch, flush_timer)} :
          /\ advertisement_batch' = r.advertisement_batch
          /\ flush_timer' = r.flush_timer
    /\ events' = <<>>
    /\ UNCHANGED <<flush_tasks, last_flush_time, waited, appended,
                   sent_batch, sent_before>>
    /\ UNCHANGED beside_batcher

\* The batcher while clear_batch is not called.
FlushingNext ==
    \/ AddAdvertisement
    \/ RunFlush
    \/ TimerFires
    \/ TimePasses
    \/ ForceFlush

BatcherNext ==
    \/ FlushingNext
    \/ ClearBatch

BatcherSpec == BatcherInit /\ [][BatcherNext]_vars

\* The event loop runs every flush task it was given and fires every timer
\* that is not cancelled; clear_batch is not called.
FairBatcherSpec ==
    /\ BatcherInit
    /\ [][FlushingNext]_vars
    /\ WF_vars(RunFlush)
    /\ WF_vars(TimerFires)


(***************************************************************************)
(* Claims about the batcher.                                               *)
(***************************************************************************)
\* The batches handed to send_callback by the last step.
BatchesSent ==
    {events[k].payload : k \in {x \in DOMAIN events :
                                    events[x].ev = "send_callback"}}

\* C18 (as claimed): every batch that the batcher passes to its send
\* callback has between 1 and FLUSH_BATCH_SIZE advertisements.
C18_Claimed_BatchWithinSize ==
    \A b \in BatchesSent : Len(b) \in 1..FLUSH_BATCH_SIZE

\* C19: while clear_batch is not called, every call of add_advertisement
\* leaves a flush task created or the flush timer running, the timer firing
\* on a non-empty buffer creates a flush task, and every advertisement in
\* the buffer is eventually in a batch passed to the send callback.
C19_AppendedIsSent ==
    /\ [][(appended' = appended + 1)
             => (flush_tasks' = flush_tasks + 1 \/ flush_timer')]_vars
    /\ [][(flush_timer /\ ~flush_timer' /\ advertisement_batch' # <<>>)
             => flush_tasks' = flush_tasks + 1]_vars
    /\ \A n \in Advertisements :
          (n \in Elements(advertisement_batch)) ~> (n \in Elements(sent_batch))

\* Advertisements that waited in the buffer behind a running timer or a
\* flush task have all been sent, in a batch after the first one.
C19_Witness ==
    /\ sent_before > 0
    /\ Len(sent_batch) >= 2
    /\ advertisement_batch = <<>>
    /\ sent_batch[Len(sent_batch)] = appended

\* C20: the advertisements of a batch are in the order in which they were
\* appended, and each was appended after everything that earlier batches
\* held: none is sent twice and none overtakes another.
C20_OrderKeptNoneTwice ==
    /\ \A i, j \in DOMAIN sent_batch :
          i < j => sent_batch[i] < sent_batch[j]
    /\ \A k \in DOMAIN sent_batch : sent_batch[k] > sent_before

\* A batch of several advertisements is sent after an earlier batch and
\* after clear_batch has dropped some.
C20_Witness ==
    /\ sent_before > 0
    /\ Len(sent_batch) >= 2
    /\ sent_batch[1] > sent_before + 1
    /\ events = <<SendCallback(sent_batch)>>

\* C21 (as claimed): on a newly created batcher, which has not flushed yet,
\* an append that leaves the buffer below FLUSH_BATCH_SIZE emits nothing and
\* schedules no flush: the timer is left running and the batch goes out when
\* it fires.
C21_Claimed_ShortBufferWaitsForTimer ==
    [][( /\ last_flush_time = 0
         /\ appended' = appended + 1
         /\ Len(advertisement_batch') < FLUSH_BATCH_SIZE )
           => /\ flush_tasks' = flush_tasks
              /\ flush_timer'
      ]_vars


(***************************************************************************)
(* The coordinator's subscribers and its scanner (bluetooth_proxy.py       *)
(* 136-216, ble_scanner.py).  The backend scanner's start and stop can     *)
(* raise; BLEScanner.stop_scanning logs the exception and goes on.         *)
(***************************************************************************)
\* BluetoothProxy._stop_scanning: nothing unless scanning_enabled is set;
\* otherwise BLEScanner.stop_scanning, scanning_enabled is cleared and the
\* batcher is flushed.
stop_scanning(enabled, scanner_scanning, ok) ==
    IF ~enabled
    THEN [scanning_enabled |-> enabled, scanning |-> scanner_scanning,
          flush |-> FALSE, events |-> <<>>]
    ELSE IF ~scanner_scanning
    THEN [scanning_enabled |-> FALSE, scanning |-> FALSE, flush |-> TRUE,
          events |-> <<>>]
    ELSE [scanning_enabled |-> FALSE, scanning |-> ~ok, flush |-> TRUE,
          events |-> <<Call("BleakScanner.stop")>>]

\* BluetoothProxy._send_scanner_state: a TODO that logs and writes nothing
\* to the API connection.
send_scanner_state(c) == <<>>

\* for connection in self.subscribed_connections:
\*     await self._send_scanner_state(connection)
RECURSIVE NotifyScannerState(_, _)
NotifyScannerState(c, subscribers) ==
    IF c > MaxConns THEN <<>>
    ELSE (IF c \in subscribers THEN send_scanner_state(c) ELSE <<>>)
             \o NotifyScannerState(c + 1, subscribers)

\* BluetoothProxy.subscribe_api_connection
subscribe_api_connection(c, ok) ==
    IF c \in subscribed_connections
    THEN [subscribed_connections |-> subscribed_connections,
          scanning_enabled |-> scanning_enabled, scanning |-> scanning,
          events |-> <<>>]
    ELSE IF subscribed_connections = {} /\ ~scanning_enabled
    THEN start_scanning(scanning_enabled, scanning, ok)
             @@ [subscribed_connections |-> {c}]
    ELSE [subscribed_connections |-> subscribed_connections \cup {c},
          scanning_enabled |-> scanning_enabled, scanning |-> scanning,
          events |-> <<>>]

\* BluetoothProxy.unsubscribe_api_connection
unsubscribe_api_connection(c, ok) ==
    IF c \notin subscribed_connections
    THEN [subscribed_connections |-> subscribed_connections,
          scanning_enabled |-> scanning_enabled, scanning |-> scanning,
          flush |-> FALSE, events |-> <<>>]
    ELSE IF subscribed_connections = {c} /\ scanning_enabled
    THEN stop_scanning(scanning_enabled, scanning, ok)
             @@ [subscribed_connections |-> {}]
    ELSE [subscribed_connections |-> subscribed_connections \ {c},
          scanning_enabled |-> scanning_enabled, scanning |-> scanning,
          flush |-> FALSE, events |-> <<>>]

ScanInit == ProxyInit

\* subscribe_api_connection is called for API connection c.
Subscribe(c, ok) ==
    /\ running
    /\ \E r \in {subscribe_api_connection(c, ok)} :
          /\ subscribed_connections' = r.subscribed_connections
          /\ scanning_enabled' = r.scanning_enabled
          /\ scanning' = r.scanning
          /\ events' =
                r.events
                  \o (IF r.scanning_enabled /\ ~scanning_enabled
                      THEN NotifyScannerState(1, r.subscribed_connections)
                      ELSE <<>>)
                  \o (IF c \in subscribed_connections THEN <<>>
                      ELSE send_scanner_state(c))
    /\ UNCHANGED <<running, stopping, connection_pool, proxy_connections,
                   tasks, released>>
    /\ UNCHANGED beside_proxy

\* unsubscribe_api_connection is called for API connection c; the flush of
\* _stop_scanning is part of it.
Unsubscribe(c, ok) ==
    /\ running
    /\ \E r \in {unsubscribe_api_connection(c, ok)} :
          /\ subscribed_connections' = r.subscribed_connections
          /\ scanning_enabled' = r.scanning_enabled
          /\ scanning' = r.scanning
          /\ IF r.flush
             THEN \E f \in {force_flush(advertisement_batch, flush_timer,
                                        last_flush_time)} :
                     Flushing(f, r.events)
                     \* then _send_scanner_state for the subscribers left,
                     \* which writes nothing
             ELSE /\ events' = r.events
                  /\ UNCHANGED <<advertisement_batch, flush_timer,
                                 last_flush_time, waited, sent_batch,
                                 sent_before>>
    /\ UNCHANGED <<flush_tasks, appended>>
    /\ UNCHANGED <<running, stopping, connection_pool, proxy_connections,
                   tasks, released>>
    /\ UNCHANGED <<api_vars, gatt_vars, frame_vars, server_vars>>

\* The running scanner reports an advertisement.
ScannerAdvertisement ==
    /\ scanning
    /\ AddAdvertisement

ScanNext ==
    \/ \E ok \in BOOLEAN : Start(ok)
    \/ \E c \in Conns, ok \in BOOLEAN : Subscribe(c, ok)
    \/ \E c \in Conns, ok \in BOOLEAN : Unsubscribe(c, ok)
    \/ ScannerAdvertisement
    \/ RunFlush
    \/ TimerFires
    \/ TimePasses

ScanSpec == ScanInit /\ [][ScanNext]_vars

\* C22 (as claimed): while the coordinator is started, the scanner is
\* running exactly when some API connection is subscribed.
C22_Claimed_ScanningIffSubscribed ==
    running => (scanning <=> subscribed_connections # {})


(***************************************************************************)
(* The GATT dispatcher (gatt_operations.py) behind two authenticated API   *)
(* connections.  A request arrives on a connection's receive loop, which   *)
(* awaits the dispatcher's handler; the handler awaits the backend call of *)
(* the slot, and the answer is written to the API server's connections.    *)
(***************************************************************************)

MaxNotifications == 1     \* handle_notification_data tasks pending at once

BLUETOOTH_GATT_READ_RESPONSE == 31
BLUETOOTH_GATT_WRITE_RESPONSE == 33
BLUETOOTH_GATT_NOTIFY_DATA_RESPONSE == 36

\* The device every request of this specification names, and the
\* characteristic or descriptor handle.
GattAddress == CHOOSE a \in DeviceAddresses : \A b \in DeviceAddresses : a <= b
GattHandle == CHOOSE h \in NotifyHandles : TRUE

GattKinds == {"read", "write", "notify", "read_descriptor", "write_descriptor"}

\* The requests a client sends: `response` matters to the writes, `enable`
\* to the notify request.
GattRequests ==
    { q \in [kind : GattKinds, address : {GattAddress}, handle : {GattHandle},
             response : BOOLEAN, enable : BOOLEAN] :
        /\ q.response => q.kind \in {"write", "write_descriptor"}
        /\ q.enable => q.kind = "notify" }

\* The sets of API connections whose socket write fails during one fan-out.
BrokenSets == {{}, {1}, {2}}

\* The message type a request has on the wire.  MessageType defines the
\* read, write and notify requests; it has no member for the descriptor
\* requests, so whatever number a client uses for them is one the dispatch
\* chain does not list.
GattWireType(kind) ==
    CASE kind = "read" -> 30
      [] kind = "write" -> 32
      [] kind = "notify" -> 34
      [] OTHER -> 99

encode_bluetooth_gatt_read_response(address, handle, data, error) ==
    Field(1, address, TRUE) \o Field(2, handle, TRUE)
        \o Field(3, data, data # "") \o Field(4, error, error # 0)

encode_bluetooth_gatt_write_response(address, handle, error) ==
    Field(1, address, TRUE) \o Field(2, handle, TRUE)
        \o Field(3, error, error # 0)

encode_bluetooth_gatt_notify_data_response(address, handle, data) ==
    Field(1, address, TRUE) \o Field(2, handle, TRUE)
        \o Field(3, data, data # "")

\* A message written to API connection c, and a write that raised.
Sent(c, t, p) == [ev |-> "send_message", conn |-> c, type |-> t, payload |-> p]
SendRaised(c, t, p) == [ev |-> "send_raised", conn |-> c, type |-> t, payload |-> p]

\* for connection in api_server.connections: if connection.is_authenticated():
\* await connection.send_message(...) -- inside one try: the write that
\* raises ends the loop.  `broken` are the connections whose socket fails.
RECURSIVE FanOutFrom(_, _, _, _)
FanOutFrom(c, t, p, broken) ==
    IF c > MaxConns THEN <<>>
    ELSE IF c \notin connections \/ state[c] # AUTHENTICATED
        THEN FanOutFrom(c + 1, t, p, broken)
    ELSE IF c \in broken THEN <<SendRaised(c, t, p)>>
    ELSE <<Sent(c, t, p)>> \o FanOutFrom(c + 1, t, p, broken)

send_gatt_read_response(address, handle, data, broken) ==
    FanOutFrom(1, BLUETOOTH_GATT_READ_RESPONSE,
               encode_bluetooth_gatt_read_response(address, handle, data, 0),
               broken)

send_gatt_write_response(address, handle, broken) ==
    FanOutFrom(1, BLUETOOTH_GATT_WRITE_RESPONSE,
               encode_bluetooth_gatt_write_response(address, handle, 0),
               broken)

send_gatt_notification(address, handle, data, broken) ==
    FanOutFrom(1, BLUETOOTH_GATT_NOTIFY_DATA_RESPONSE,
               encode_bluetooth_gatt_notify_data_response(address, handle, data),
               broken)

\* Errors are read responses with error 1 and no data, whatever the request.
send_gatt_error(address, handle, broken) ==
    FanOutFrom(1, BLUETOOTH_GATT_READ_RESPONSE,
               encode_bluetooth_gatt_read_response(address, handle, "", 1),
               broken)

\* The slot serving the address when it is connected, else 0.
get_connection(address) ==
    IF /\ address \in DOMAIN proxy_connections
       /\ is_connected(connection_pool[proxy_connections[address]])
    THEN proxy_connections[address]
    ELSE 0

\* notification_subscriptions[address][handle], "absent" when never set.
SubscriptionFlag(subs, address, handle) ==
    IF address \in DOMAIN subs /\ handle \in DOMAIN subs[address]
    THEN IF subs[address][handle] THEN "on" ELSE "off"
    ELSE "absent"

SetSubscription(subs, address, handle, enable) ==
    LET old == IF address \in DOMAIN subs THEN subs[address] ELSE <<>>
        new == [h \in DOMAIN old \cup {handle} |->
                    IF h = handle THEN enable ELSE old[h]]
    IN [a \in DOMAIN subs \cup {address} |->
            IF a = address THEN new ELSE subs[a]]

\* What a handler does once the backend call has returned (ok) or has
\* failed (a raise in the reads, a False result in the others).
gatt_result(op, ok, broken) ==
    CASE op.kind \in {"read", "read_descriptor"} ->
            IF ok THEN send_gatt_read_response(op.address, op.handle, "value", broken)
            ELSE send_gatt_error(op.address, op.handle, broken)
      [] op.kind \in {"write", "write_descriptor"} ->
            IF ~op.response THEN <<>>
            ELSE IF ok THEN send_gatt_write_response(op.address, op.handle, broken)
            ELSE send_gatt_error(op.address, op.handle, broken)
      [] op.kind = "notify" ->
            IF ok THEN <<>>
            ELSE send_gatt_error(op.address, op.handle, broken)

\* BLEConnection.start_notify / stop_notify record or drop the handler once
\* the backend call has succeeded.
NotifyRecorded(pool, op, ok) ==
    IF op.kind = "notify" /\ ok
    THEN [pool EXCEPT ![op.slot].notification_handlers =
              IF op.enable THEN @ \cup {op.handle} ELSE @ \ {op.handle}]
    ELSE pool

\* The handler up to its backend call.  No connected slot: the error and
\* nothing else.  The notify handler writes the subscription flag before
\* it calls the backend.  `found` says whether the device's GATT table
\* (client.services) holds the handle; when it does not, the slot's method
\* fails before it calls the backend.
gatt_request(q, found, broken) ==
    LET slot == get_connection(q.address)
        subs == IF q.kind = "notify" /\ slot # 0
                THEN SetSubscription(notification_subscriptions,
                                     q.address, q.handle, q.enable)
                ELSE notification_subscriptions
        op == [kind |-> q.kind, address |-> q.address, handle |-> q.handle,
               response |-> q.response, enable |-> q.enable, slot |-> slot,
               before |-> SubscriptionFlag(notification_subscriptions,
                                           q.address, q.handle)]
    IN IF slot = 0
       THEN [subs |-> subs, op |-> NoOp,
             events |-> send_gatt_error(q.address, q.handle, broken)]
       ELSE IF ~found
       THEN [subs |-> subs, op |-> NoOp,
             events |-> gatt_result(op, FALSE, broken)]
       ELSE [subs |-> subs, op |-> op,
             events |-> <<Call("backend_" \o q.kind)>>]

\* Two API clients, connections 1 and 2 in the order the server accepted
\* them, both authenticated, with the coordinator and its dispatcher
\* attached.
DispatchInit ==
    /\ password = None
    /\ active_connections = FALSE
    /\ proxy_attached = TRUE
    /\ bluetooth_mac_address = None
    /\ exited = FALSE
    /\ connections = {1, 2}
    /\ pc = [c \in Conns |-> IF c \in {1, 2} THEN "read" ELSE "free"]
    /\ state = [c \in Conns |->
                   IF c \in {1, 2} THEN AUTHENTICATED ELSE CONNECTING]
    /\ closing = [c \in Conns |-> FALSE]
    /\ client_info = [c \in Conns |-> ""]
    /\ subscribed_to_states = [c \in Conns |-> FALSE]
    /\ buffered = [c \in Conns |-> 0]
    /\ last = [op |-> "init", conn |-> 0, msg |-> NoMsg, state |-> CONNECTING,
               closing |-> FALSE, subscribed_to_states |-> FALSE]
    /\ events = <<>>
    /\ ProxyConstructed
    /\ BatcherConstructed
    /\ GattConstructed
    /\ NothingReceived
    /\ ServerConstructed

\* Connection c's receive loop dispatches GATT request q and awaits the
\* dispatcher.
GattRequest(c, q, found, broken) ==
    /\ c \in connections /\ pc[c] = "read" /\ gatt_ops[c] = NoOp
    /\ LET at_connection == handle_message(c, Msg(GattWireType(q.kind)), NoEnv)
       IN IF at_connection.events # <<Call("gatt_request")>>
          THEN /\ events' = at_connection.events
               /\ UNCHANGED gatt_vars
          ELSE \E r \in {gatt_request(q, found, broken)} :
               /\ notification_subscriptions' = r.subs
               /\ gatt_ops' = [gatt_ops EXCEPT ![c] = r.op]
               /\ events' = r.events
               /\ UNCHANGED notify_tasks
    /\ UNCHANGED <<api_vars, proxy_vars, batcher_vars, frame_vars, server_vars>>

\* The backend call connection c awaits returns or fails; the handler
\* answers.
GattEnds(c, ok, broken) ==
    /\ gatt_ops[c] # NoOp
    /\ connection_pool' = NotifyRecorded(connection_pool, gatt_ops[c], ok)
    /\ events' = gatt_result(gatt_ops[c], ok, broken)
    /\ gatt_ops' = [gatt_ops EXCEPT ![c] = NoOp]
    /\ UNCHANGED <<notification_subscriptions, notify_tasks>>
    /\ UNCHANGED <<running, stopping, proxy_connections, tasks, released,
                   scan_vars>>
    /\ UNCHANGED beside_gatt

\* The backend delivers a notification of a handle whose handler the slot
\* holds: notification_callback creates a handle_notification_data task.
NotificationArrives(i, h) ==
    /\ is_connected(connection_pool[i])
    /\ h \in connection_pool[i].notification_handlers
    /\ BagCardinality(notify_tasks) < MaxNotifications
    /\ notify_tasks' = notify_tasks (+) SetToBag({<<connection_pool[i].address, h>>})
    /\ events' = <<>>
    /\ UNCHANGED <<notification_subscriptions, gatt_ops>>
    /\ UNCHANGED <<api_vars, proxy_vars, batcher_vars, frame_vars, server_vars>>

\* handle_notification_data: forwarded when the subscription flag is set.
handle_notification_data(address, handle, broken) ==
    IF SubscriptionFlag(notification_subscriptions, address, handle) = "on"
    THEN send_gatt_notification(address, handle, "value", broken)
    ELSE <<>>

RunNotification(t, broken) ==
    /\ BagIn(t, notify_tasks)
    /\ notify_tasks' = notify_tasks (-) SetToBag({t})
    /\ events' = handle_notification_data(t[1], t[2], broken)
    /\ UNCHANGED <<notification_subscriptions, gatt_ops>>
    /\ UNCHANGED <<api_vars, proxy_vars, batcher_vars, frame_vars, server_vars>>

\* Connection 1 carries the device requests; its loop takes the next frame
\* only when it is not awaiting the dispatcher.  The client sends one once
\* the task of its last one has ended.
GattDeviceRequest(m) ==
    /\ gatt_ops[1] = NoOp
    /\ tasks = EmptyBag
    /\ m.address = GattAddress
    /\ DeviceRequest(m)

DispatchNext ==
    \/ Start(TRUE)
    \/ \E m \in ProxyDeviceMsgs : GattDeviceRequest(m)
    \/ \E t \in DOMAIN tasks : RunConnect(t)
    \/ \E t \in DOMAIN tasks, ok \in BOOLEAN : ConnectEnds(t, ok)
    \/ \E t \in DOMAIN tasks : RunDisconnect(t)
    \/ \E t \in DOMAIN tasks, ok \in BOOLEAN : DisconnectEnds(t, ok)
    \/ \E i \in Slots : LinkLost(i)
    \/ \E c \in {1, 2}, q \in GattRequests, found \in BOOLEAN,
          broken \in BrokenSets : GattRequest(c, q, found, broken)
    \/ \E c \in {1, 2}, ok \in BOOLEAN, broken \in BrokenSets :
          GattEnds(c, ok, broken)
    \/ \E i \in Slots : NotificationArrives(i, GattHandle)
    \/ \E broken \in BrokenSets :
          RunNotification(<<GattAddress, GattHandle>>, broken)

DispatchSpec == DispatchInit /\ [][DispatchNext]_vars


(***************************************************************************)
(* Properties of the GATT dispatcher.                                      *)
(***************************************************************************)
\* An error response written to connection c: error 1 and no data.
IsGattError(e, c) ==
    /\ e.ev = "send_message"
    /\ e.conn = c
    /\ e.type = BLUETOOTH_GATT_READ_RESPONSE
    /\ FieldOr(e.payload, 4, 0) = 1
    /\ FieldOr(e.payload, 3, "") = ""

ErrorWrittenTo(evs, c) == \E k \in DOMAIN evs : IsGattError(evs[k], c)

BackendCalls == {Call("backend_" \o k) : k \in GattKinds}

BackendCalled(evs) == \E k \in DOMAIN evs : evs[k] \in BackendCalls

\* C23: a GATT read, write, notify, read-descriptor or write-descriptor
\* request for an address with no connected slot makes no backend call, is
\* answered to its sender with an error response (error 1, no data), and
\* leaves the sender's connection open.  All sockets accept the write.
C23_Claimed_NoSlotAnsweredWithError ==
    [][\A c \in {1, 2}, q \in GattRequests :
          ( /\ GattRequest(c, q, TRUE, {})
            /\ get_connection(q.address) = 0 )
          => /\ ~BackendCalled(events')
             /\ ErrorWrittenTo(events', c)
             /\ ~closing'[c] /\ c \in connections'
      ]_vars

\* C24: with two authenticated clients, the error response to a GATT
\* request of one client -- sent by the request's handler at once, or when
\* the backend call it awaits has failed -- is written to no other client.
C24_Claimed_ErrorToRequesterOnly ==
    [][\A c \in {1, 2}, d \in {1, 2} :
          ( /\ c # d
            /\ gatt_ops[d] = NoOp
            /\ \/ \E q \in GattRequests, found \in BOOLEAN :
                     GattRequest(c, q, found, {})
               \/ /\ gatt_ops[c] # NoOp
                  /\ \E ok \in BOOLEAN : GattEnds(c, ok, {}) )
          => ~ErrorWrittenTo(events', d)
      ]_vars

\* C25: when the write of a fanned-out message (a GATT response, error or
\* notification) fails on one client's socket, the same message is still
\* written to every other authenticated client.
C25_Claimed_FailedWriteSkipsNoClient ==
    [][\A k \in DOMAIN events' :
          events'[k].ev = "send_raised"
          => \A d \in connections \ {events'[k].conn} :
                state[d] = AUTHENTICATED
                => \E j \in DOMAIN events' :
                      events'[j] = Sent(d, events'[k].type, events'[k].payload)
      ]_vars

\* C26: when the backend write of a write request that asked for no
\* response (characteristic or descriptor, connected slot) has succeeded,
\* nothing is written to the clients; when it has failed, an error response
\* with error 1 is written to the requester.
C26_Claimed_UnackedWriteFailureReported ==
    [][\A c \in {1, 2}, ok \in BOOLEAN :
          ( /\ gatt_ops[c].kind \in {"write", "write_descriptor"}
            /\ ~gatt_ops[c].response
            /\ GattEnds(c, ok, {}) )
          => IF ok THEN events' = <<>> ELSE ErrorWrittenTo(events', c)
      ]_vars

\* C27: when the backend call of a notify-enable or notify-disable request
\* has failed, the subscription flag of the request's (address, handle) has
\* the value it had before the request (a flag never written counts as
\* off).
C27_Claimed_FailedNotifyRolledBack ==
    [][\A c \in {1, 2} :
          ( /\ gatt_ops[c].kind = "notify"
            /\ GattEnds(c, FALSE, {}) )
          => ( SubscriptionFlag(notification_subscriptions',
                                gatt_ops[c].address, gatt_ops[c].handle) = "on"
               <=> gatt_ops[c].before = "on" )
      ]_vars

\* A slot that was connected, or was disconnecting, is Disconnected after
\* this step.
SlotDisconnects(i) ==
    /\ connection_pool[i].state \in {SLOT_CONNECTED, SLOT_DISCONNECTING}
    /\ connection_pool'[i].state = SLOT_DISCONNECTED

\* Notification data of (address a, handle h) is written to a client.
NotificationForwarded(evs, a, h) ==
    \E k \in DOMAIN evs :
       /\ evs[k].ev = "send_message"
       /\ evs[k].type = BLUETOOTH_GATT_NOTIFY_DATA_RESPONSE
       /\ FieldOr(evs[k].payload, 1, 0) = a
       /\ FieldOr(evs[k].payload, 2, 0) = h

\* C28: when a slot disconnects, no subscription of its address is left
\* set; and notification data of an address is written to the clients only
\* while a connected slot serves the address and holds a handler for the
\* handle, which disconnecting removes and only a successful notify-enable
\* request records again.
C28_Claimed_DisconnectDropsSubscriptions ==
    [][ /\ \A i \in Slots :
             SlotDisconnects(i)
             => SubscriptionFlag(notification_subscriptions',
                                 connection_pool[i].address, GattHandle) # "on"
        /\ NotificationForwarded(events', GattAddress, GattHandle)
             => /\ get_connection(GattAddress) # 0
                /\ GattHandle \in connection_pool[get_connection(GattAddress)]
                                      .notification_handlers
      ]_vars

\* C29: a GATT operation whose slot is no longer connected when its backend
\* call ends is answered with the error response (error 1) and nothing
\* else, whatever the backend call returned.
C29_Claimed_InFlightCancelledOnDisconnect ==
    [][\A c \in {1, 2}, ok \in BOOLEAN :
          ( /\ gatt_ops[c] # NoOp
            /\ ~is_connected(connection_pool[gatt_ops[c].slot])
            /\ GattEnds(c, ok, {}) )
          => events' = send_gatt_error(gatt_ops[c].address,
                                       gatt_ops[c].handle, {})
      ]_vars


(***************************************************************************)
(* Framing (protocol.py) and the receive loop of one connection            *)
(* (connection.py, _handle_messages), byte by byte.                        *)
(***************************************************************************)

MaxStreamFrames == 2      \* frames the peer sends on the connection

ReadSize == 4096          \* reader.read(4096)

\* The frames of a stream: a type with a one-byte varint and one with two
\* bytes; payloads whose length has a one-byte varint (0 and 1 byte) and a
\* two-byte varint (128 bytes).
FrameTypes == {1, 200}
PayloadLengths == {0, 1, 128}

PayloadOf(n) == [i \in 1..n |-> (i * 37) % 256]

StreamFrames ==
    {[type |-> t, payload |-> PayloadOf(n)] :
        t \in FrameTypes, n \in PayloadLengths}

RECURSIVE encode_varint(_)
encode_varint(value) ==
    IF value >= 128
    THEN <<(value % 128) + 128>> \o encode_varint(value \div 128)
    ELSE <<value % 128>>

RECURSIVE Power2(_)
Power2(n) == IF n = 0 THEN 1 ELSE 2 * Power2(n - 1)

\* decode_varint from the byte at pos (1-based), with the value and the
\* shift accumulated so far.
RECURSIVE VarintFrom(_, _, _, _, _)
VarintFrom(data, offset, pos, shift, result) ==
    IF pos > Len(data)
    THEN [error |-> "Incomplete VarInt", value |-> 0, consumed |-> 0]
    ELSE LET byte == data[pos]
             value == result + (byte % 128) * Power2(shift)
         IN  IF byte < 128
             THEN [error |-> "", value |-> value, consumed |-> pos + 1 - offset]
             ELSE IF shift + 7 >= 64
             THEN [error |-> "VarInt too long", value |-> 0, consumed |-> 0]
             ELSE VarintFrom(data, offset, pos + 1, shift + 7, value)

\* decode_varint(data, offset): offset counts the bytes before the varint.
decode_varint(data, offset) == VarintFrom(data, offset + 1, offset + 1, 0, 0)

create_message_frame(msg_type, payload) ==
    <<0>> \o encode_varint(Len(payload)) \o encode_varint(msg_type) \o payload

NoParse(error) == [error |-> error, type |-> 0, payload |-> <<>>, size |-> 0]

parse_message_frame(data) ==
    IF Len(data) < 1 \/ data[1] # 0
    THEN NoParse("Invalid frame start marker")
    ELSE LET payload_size == decode_varint(data, 1)
         IN  IF payload_size.error # "" THEN NoParse(payload_size.error)
             ELSE LET msg_type == decode_varint(data, 1 + payload_size.consumed)
                      offset == 1 + payload_size.consumed + msg_type.consumed
                  IN  IF msg_type.error # "" THEN NoParse(msg_type.error)
                      ELSE IF offset + payload_size.value > Len(data)
                      THEN NoParse("Incomplete message frame")
                      ELSE [error |-> "", type |-> msg_type.value,
                            payload |-> SubSeq(data, offset + 1,
                                               offset + payload_size.value),
                            size |-> offset + payload_size.value]

\* "Incomplete message frame" in str(e): of the messages the parser raises,
\* only this one contains the text.
NeedsMoreData(error) == error = "Incomplete message frame"

\* The inner loop of _handle_messages: while the buffer holds 3 bytes or
\* more, parse a frame, drop it from the buffer and hand it to
\* _handle_message; wait for more data on "Incomplete message frame",
\* return on every other ProtocolError.
RECURSIVE ProcessBuffer(_, _)
ProcessBuffer(buf, done) ==
    IF Len(buf) < 3
    THEN [buffer |-> buf, handled |-> done, loop |-> "reading"]
    ELSE LET frame == parse_message_frame(buf)
         IN  IF frame.error = ""
             THEN ProcessBuffer(SubSeq(buf, frame.size + 1, Len(buf)),
                                Append(done, <<frame.type, frame.payload>>))
             ELSE IF NeedsMoreData(frame.error)
             THEN [buffer |-> buf, handled |-> done, loop |-> "reading"]
             ELSE [buffer |-> buf, handled |-> done, loop |-> "returned"]

\* The frames of a byte string parsed in one piece.
RECURSIVE ParseAll(_)
ParseAll(data) ==
    IF data = <<>> THEN <<>>
    ELSE LET frame == parse_message_frame(data)
         IN  IF frame.error # "" THEN <<>>
             ELSE <<<<frame.type, frame.payload>>>>
                      \o ParseAll(SubSeq(data, frame.size + 1, Len(data)))

RECURSIVE Concat(_)
Concat(frames) ==
    IF frames = <<>> THEN <<>>
    ELSE create_message_frame(frames[1].type, frames[1].payload)
             \o Concat(Tail(frames))

\* A connection whose peer sends a sequence of valid frames.
FrameInit ==
    /\ password = None
    /\ active_connections = FALSE
    /\ proxy_attached = TRUE
    /\ bluetooth_mac_address = None
    /\ exited = FALSE
    /\ connections = {1}
    /\ pc = [c \in Conns |-> IF c = 1 THEN "read" ELSE "free"]
    /\ state = [c \in Conns |-> CONNECTING]
    /\ closing = [c \in Conns |-> FALSE]
    /\ client_info = [c \in Conns |-> ""]
    /\ subscribed_to_states = [c \in Conns |-> FALSE]
    /\ buffered = [c \in Conns |-> 0]
    /\ last = [op |-> "init", conn |-> 0, msg |-> NoMsg, state |-> CONNECTING,
               closing |-> FALSE, subscribed_to_states |-> FALSE]
    /\ events = <<>>
    /\ ProxyConstructed
    /\ BatcherConstructed
    /\ GattConstructed
    /\ \E n \in 1..MaxStreamFrames :
          \E frames \in [1..n -> StreamFrames] : socket_bytes = Concat(frames)
    /\ received = 0
    /\ buffer = <<>>
    /\ handled = <<>>
    /\ loop = "reading"
    /\ ServerConstructed

\* reader.read(4096) returns the next n bytes; the loop appends them to the
\* buffer and processes it.
SocketRead(n) ==
    /\ loop = "reading"
    /\ n >= 1 /\ n <= ReadSize /\ received + n <= Len(socket_bytes)
    /\ \E r \in {ProcessBuffer(
                    buffer \o SubSeq(socket_bytes, received + 1, received + n),
                    handled)} :
          /\ buffer' = r.buffer
          /\ handled' = r.handled
          /\ loop' = r.loop
    /\ received' = received + n
    /\ UNCHANGED socket_bytes
    /\ UNCHANGED beside_frames

\* The peer has sent everything and closes: read returns no data, the loop
\* ends.
SocketEof ==
    /\ loop = "reading"
    /\ received = Len(socket_bytes)
    /\ loop' = "eof"
    /\ UNCHANGED <<socket_bytes, received, buffer, handled>>
    /\ UNCHANGED beside_frames

FrameNext ==
    \/ \E n \in 1..Len(socket_bytes) : SocketRead(n)
    \/ SocketEof

FrameSpec == FrameInit /\ [][FrameNext]_vars

\* C30: however the bytes of a sequence of valid frames are split into
\* reads, the receive loop never returns on a protocol error, what it has
\* handed to _handle_message is the frames of the bytes read so far that
\* are complete, and once every byte has been read it is what parsing the
\* whole byte string at once gives.
C30_Claimed_SplitReadsParseAlike ==
    /\ loop # "returned"
    /\ handled \o ParseAll(buffer) = ParseAll(SubSeq(socket_bytes, 1, received))
    /\ received = Len(socket_bytes) => handled = ParseAll(socket_bytes)


(***************************************************************************)
(* The API server (api_server.py): start, the signal handler, _shutdown    *)
(* and stop, with the handler tasks of the accepted connections.           *)
(***************************************************************************)

MaxSignals == 2           \* signals delivered to the process

\* _signal_handler while the event loop runs: nothing when a shutdown has
\* been requested already; otherwise the flag is set, running is cleared
\* and one _shutdown task is created.
signal_handler_every_time(requested, is_running, created) ==
    [shutdown_requested |-> TRUE, running |-> FALSE, created |-> created + 1]

signal_handler(requested, is_running, created) ==
    IF requested
    THEN [shutdown_requested |-> requested, running |-> is_running,
          created |-> created]
    ELSE [shutdown_requested |-> TRUE, running |-> FALSE,
          created |-> created + 1]

\* ESPHomeAPIServer.stop: returns at once when the server is not running;
\* otherwise clears running, closes every connection of the list and closes
\* the listener.
stop(is_running) ==
    IF ~is_running
    THEN [ran |-> FALSE, running |-> is_running, closing |-> closing,
          server |-> server, events |-> <<>>]
    ELSE [ran |-> TRUE, running |-> FALSE,
          closing |-> [c \in Conns |-> closing[c] \/ c \in connections],
          server |-> IF server = "none" THEN server ELSE "closed",
          events |-> <<Call("stop")>>]

\* start(): the listener is opened and serve_forever awaited.
ServerStart ==
    /\ ~loop_stopped
    /\ main_task = "created" /\ ~server_running
    /\ server' = "open"
    /\ server_running' = TRUE
    /\ main_task' = "serving"
    /\ events' = <<Call("start_server")>>
    /\ UNCHANGED <<shutdown_requested, shutdown_tasks, shutdown_pc, cancelled,
                   loop_stopped, signals>>
    /\ UNCHANGED <<api_vars, beside_server>>

\* The listener accepts a client.
ServerAccept(c) ==
    /\ ~loop_stopped
    /\ server = "open"
    /\ Accept(c)

\* A connection's handler ends by itself: end of stream (also after its
\* writer was closed), timeout or error.
ServerReadEnds(c, why) ==
    /\ ~loop_stopped
    /\ c \notin cancelled
    /\ ReadEnds(c, why)

\* SIGINT or SIGTERM is delivered.
Signal ==
    /\ signals < MaxSignals
    /\ signals' = signals + 1
    /\ \E r \in {signal_handler(shutdown_requested, server_running,
                                shutdown_tasks)} :
          /\ shutdown_requested' = r.shutdown_requested
          /\ server_running' = r.running
          /\ shutdown_tasks' = r.created
          /\ shutdown_pc' = IF r.created > shutdown_tasks THEN "scheduled"
                            ELSE shutdown_pc
    /\ events' = <<>>
    /\ UNCHANGED <<server, main_task, cancelled, loop_stopped>>
    /\ UNCHANGED <<api_vars, beside_server>>

\* _shutdown up to its await of the cancelled tasks: stop() is awaited,
\* then every other task that is not done -- the handlers of the
\* connections in the list and the task awaiting start() -- is cancelled.
\* With no such task the loop is stopped at once.
ShutdownRuns ==
    /\ ~loop_stopped
    /\ shutdown_pc = "scheduled"
    /\ \E r \in {stop(server_running)} :
          LET main_left == main_task \in {"created", "serving"}
          IN  /\ server_running' = r.running
              /\ closing' = r.closing
              /\ server' = r.server
              /\ events' = r.events
              /\ cancelled' = connections
              /\ main_task' = IF main_left THEN "cancelled_" \o main_task
                              ELSE main_task
              /\ IF connections = {} /\ ~main_left
                 THEN loop_stopped' = TRUE /\ shutdown_pc' = "done"
                 ELSE loop_stopped' = FALSE /\ shutdown_pc' = "cancelling"
    /\ UNCHANGED <<shutdown_requested, shutdown_tasks, signals>>
    /\ UNCHANGED <<password, active_connections, bluetooth_mac_address,
                   proxy_attached, exited, connections, pc, state,
                   client_info, subscribed_to_states, buffered, last>>
    /\ UNCHANGED beside_server

\* A cancelled handler task runs: handle_connection's finally closes the
\* connection and _handle_client removes it from the list.
CancelledConnection(c) ==
    /\ ~loop_stopped
    /\ c \in cancelled
    /\ cancelled' = cancelled \ {c}
    /\ closing' = [closing EXCEPT ![c] = TRUE]
    /\ pc' = [pc EXCEPT ![c] = "done"]
    /\ connections' = connections \ {c}
    /\ state' = [state EXCEPT ![c] = Dropped.state]
    /\ client_info' = [client_info EXCEPT ![c] = Dropped.client_info]
    /\ subscribed_to_states' =
           [subscribed_to_states EXCEPT ![c] = Dropped.subscribed_to_states]
    /\ last' = Step("cancelled", c, NoMsg)
    /\ events' = close(Cur(c)).events
    /\ UNCHANGED <<config_vars, bluetooth_mac_address, exited, buffered>>
    /\ UNCHANGED <<server_running, shutdown_requested, server, main_task,
                   shutdown_tasks, shutdown_pc, loop_stopped, signals>>
    /\ UNCHANGED beside_server

\* The task awaiting start() ends: cancelled before the listener was open,
\* cancelled in serve_forever (leaving `async with self.server` closes the
\* listener), or serve_forever ended because stop() closed the listener.
MainEnds ==
    /\ ~loop_stopped
    /\ \/ main_task \in {"cancelled_created", "cancelled_serving"}
       \/ main_task = "serving" /\ server = "closed"
    /\ main_task' = "done"
    /\ server' = IF main_task = "cancelled_serving" THEN "closed" ELSE server
    /\ events' = <<>>
    /\ UNCHANGED <<server_running, shutdown_requested, shutdown_tasks,
                   shutdown_pc, cancelled, loop_stopped, signals>>
    /\ UNCHANGED <<api_vars, beside_server>>

\* _shutdown after its wait: the cancelled tasks are done, or the 3 s
\* timeout has passed; loop.stop().
ShutdownStopsLoop(timeout) ==
    /\ shutdown_pc = "cancelling"
    /\ timeout \/ (cancelled = {} /\ main_task = "done")
    /\ loop_stopped' = TRUE
    /\ shutdown_pc' = "done"
    /\ events' = <<Call("loop.stop")>>
    /\ UNCHANGED <<server_running, shutdown_requested, server, main_task,
                   shutdown_tasks, cancelled, signals>>
    /\ UNCHANGED <<api_vars, beside_server>>

\* ESPHomeAPIServer.set_active_connections: the provider's flag is set.
SetActiveConnections(active) ==
    /\ ~loop_stopped
    /\ active_connections' = active
    /\ events' = <<Call("set_active_connections")>>
    /\ UNCHANGED <<password, proxy_attached, bluetooth_mac_address, exited,
                   connections, pc, state, closing, client_info,
                   subscribed_to_states, buffered, last>>
    /\ UNCHANGED <<server_vars, beside_server>>

ServerNext ==
    \/ ServerStart
    \/ \E active \in BOOLEAN : SetActiveConnections(active)
    \/ \E c \in Conns : ServerAccept(c)
    \/ \E c \in Conns, why \in ReadEndReasons : ServerReadEnds(c, why)
    \/ Signal
    \/ ShutdownRuns
    \/ \E c \in Conns : CancelledConnection(c)
    \/ MainEnds
    \/ \E timeout \in BOOLEAN : ShutdownStopsLoop(timeout)

ServerSpec == Init /\ [][ServerNext]_vars

C38_Claimed_StopCompletesFirst ==
    [][(shutdown_pc = "scheduled" /\ shutdown_pc' # "scheduled")
          => /\ server' # "open"
             /\ \A c \in connections : closing'[c]
      ]_vars

\* C32: when the read of a connection times out, returns end of stream or
\* fails, whatever the connection's state, the connection is closed and
\* is no longer in the server's list, and every other connection keeps its
\* state, its writer, its fields and its place in the list.
C32_ReadEndClosesOnlyThatConnection ==
    [][\A c \in Conns :
          (/\ pc[c] = "read"
           /\ pc'[c] = "done"
           /\ last'.op \in {"timeout", "eof", "error"}
           /\ last'.conn = c)
          => /\ closing'[c]
             /\ c \notin connections'
             /\ \A d \in Conns \ {c} :
                   /\ state'[d] = state[d]
                   /\ closing'[d] = closing[d]
                   /\ client_info'[d] = client_info[d]
                   /\ subscribed_to_states'[d] = subscribed_to_states[d]
                   /\ pc'[d] = pc[d]
                   /\ buffered'[d] = buffered[d]
                   /\ (d \in connections') = (d \in connections)
      ]_vars

C32_Witness ==
    /\ last.op = "timeout"
    /\ last.state = AUTHENTICATED
    /\ last.conn \notin connections
    /\ closing[last.conn]
    /\ \E d \in connections : state[d] = AUTHENTICATED /\ ~closing[d]

DeviceInfoWritten ==
    SelectSeq(events, LAMBDA e : IsWrite(e) /\ e.type = DEVICE_INFO_RESPONSE)

Probed == \E i \in 1..Len(events) : events[i].ev = "probe_bleak"

\* The MAC fields (3 and 18) of an encoded DeviceInfoResponse are both a.
CarriesMAC(p, a) ==
    /\ \E i \in 1..Len(p) : p[i].field = 3
    /\ \E i \in 1..Len(p) : p[i].field = 18
    /\ \A i \in 1..Len(p) : p[i].field \in {3, 18} => p[i].value = a

\* C33: when no discovery method gives the adapter's MAC the process
\* exits (code 1) in that step, nothing is cached, no DeviceInfoResponse is
\* written in that step and no step follows; a DeviceInfoResponse is
\* written only with the MAC that the probe of this step returned, or with
\* the cached one, which a probe returned earlier; a cached MAC never
\* changes and is used without probing.
C33_DeviceInfoCarriesDiscoveredMAC ==
    [][/\ ~exited
       /\ bluetooth_mac_address # None
            => /\ bluetooth_mac_address' = bluetooth_mac_address
               /\ ~Probed'
               /\ ~exited'
       /\ exited' => /\ bluetooth_mac_address' = None
                     /\ Probed'
                     /\ DeviceInfoWritten' = <<>>
                     /\ \E i \in 1..Len(events') :
                           events'[i] = Call("sys_exit")
       /\ \A i \in 1..Len(DeviceInfoWritten') :
             /\ bluetooth_mac_address' # None
             /\ CarriesMAC(DeviceInfoWritten'[i].payload,
                           bluetooth_mac_address'[1])
       /\ \A c \in Conns, env \in {e \in Envs : e.success} :
             (/\ bluetooth_mac_address = None
              /\ \/ \E n \in 1..MaxFrames :
                       Receive(c, n, Msg(DEVICE_INFO_REQUEST), env)
                 \/ DispatchBuffered(c, Msg(DEVICE_INFO_REQUEST), env)
              /\ Probed')
             => IF env.probe = "fail"
                THEN exited'
                ELSE bluetooth_mac_address' = Some(env.mac)
      ]_vars

\* A response was written from the cache after a probe found the second
\* adapter's MAC.
C33_Witness ==
    /\ bluetooth_mac_address = Some("AA:BB:CC:DD:EE:02")
    /\ DeviceInfoWritten # <<>>
    /\ ~Probed

C33_WitnessExit == exited /\ bluetooth_mac_address = None

\* Bit k of n.
Bit(n, k) == (n \div Power2(k)) % 2

\* C34: whatever set_active_connections calls were made, get_feature_flags
\* gives 97 while active connections are disabled and 127 while they are
\* enabled: bits 0, 5 and 6 are always set, and bits 1, 2, 3 and 4 are set
\* exactly when active connections are enabled.
C34_FeatureFlagsFollowActiveConnections ==
    LET flags == get_feature_flags(active_connections)
    IN  /\ flags = IF active_connections THEN 127 ELSE 97
        /\ \A k \in {0, 5, 6} : Bit(flags, k) = 1
        /\ \A k \in {1, 2, 3, 4} : (Bit(flags, k) = 1) = active_connections
        /\ flags < 128

C34_Witness ==
    /\ events = <<Call("set_active_connections")>>
    /\ active_connections
    /\ get_feature_flags(active_connections) = 127
    /\ connections # {}

\* C35: connect_device gives a device only a slot whose address is 0 and
\* whose state is Disconnected at that moment, and the connect task created
\* for an accepted request, when it runs, finds the slot Disconnected and
\* so makes the backend connect call.
C35_Claimed_SlotFreeWhenAssigned ==
    [][/\ \A i \in Slots :
             (/\ i \in DOMAIN connection_pool
              /\ i \in DOMAIN connection_pool'
              /\ connection_pool[i].address = 0
              /\ connection_pool'[i].address # 0)
             => connection_pool[i].state = SLOT_DISCONNECTED
       /\ \A t \in DOMAIN tasks :
             RunConnect(t) => connection_pool[t.slot].state = SLOT_DISCONNECTED
      ]_vars

\* A message written to a client is a BluetoothGATTWriteResponse for the
\* address and handle of op with the error code err.
IsWriteResponseFor(e, op, err) ==
    /\ e.type = BLUETOOTH_GATT_WRITE_RESPONSE
    /\ FieldOr(e.payload, 1, 0) = op.address
    /\ FieldOr(e.payload, 2, 0) = op.handle
    /\ FieldOr(e.payload, 3, 0) = err

\* C36: every message written to a client for a characteristic or
\* descriptor write request that asked for a response is a
\* BluetoothGATTWriteResponse with the request's address and handle, with
\* error 0 when the backend write succeeded and error 1 when it failed,
\* when the handle was not found or when the device has no connected slot.
C36_Claimed_WriteAnsweredByWriteResponse ==
    [][\A c \in {1, 2}, broken \in BrokenSets :
          /\ \A ok \in BOOLEAN :
                ( /\ gatt_ops[c].kind \in {"write", "write_descriptor"}
                  /\ gatt_ops[c].response
                  /\ GattEnds(c, ok, broken) )
                => \A k \in DOMAIN events' :
                      events'[k].ev = "send_message"
                      => IsWriteResponseFor(events'[k], gatt_ops[c],
                                            IF ok THEN 0 ELSE 1)
          /\ \A q \in GattRequests, found \in BOOLEAN :
                ( /\ q.kind \in {"write", "write_descriptor"}
                  /\ q.response
                  /\ GattRequest(c, q, found, broken) )
                => \A k \in DOMAIN events' :
                      events'[k].ev = "send_message"
                      => IsWriteResponseFor(events'[k], q, 1)
      ]_vars

\* A message is written to API connection c in this step's effects.
MessageWrittenTo(evs, c) ==
    \E k \in DOMAIN evs : evs[k].ev = "send_message" /\ evs[k].conn = c

\* C37: in every step in which the coordinator's scanning state changes
\* (scanning started or stopped), a message is written to every API
\* connection that is subscribed at that moment: those of the coordinator's
\* subscriber list and those whose subscribed_to_states flag is set.
C37_Claimed_ScannerStatePushed ==
    [][scanning_enabled' # scanning_enabled
          => \A c \in Conns :
                (c \in subscribed_connections' \/ subscribed_to_states'[c])
                => MessageWrittenTo(events', c)
      ]_vars

\* The field numbers of an encoded message, in the order they were emitted.
Ascending(p) == \A i \in 1..(Len(p) - 1) : p[i].field < p[i + 1].field

\* C39: every message a handler encodes for writing, a DeviceInfoResponse
\* with fields 12, 13, 15 and 18 present included, has its fields in
\* strictly ascending order of field number.
C39_Claimed_FieldsAscending ==
    \A k \in DOMAIN events :
        events[k].ev \in {"write", "write_lost"} => Ascending(events[k].payload)

\* C40: a request frame that is handled on a connection whose writer the
\* server had closed before (after a Disconnect request or a Connect
\* request with a wrong password) has no effect: nothing is written to the
\* client, the connection's state stays what it was, and no call is made
\* into the BLE coordinator or the GATT dispatcher.
C40_Claimed_NothingAfterClose ==
    (Dispatched /\ last.closing)
        => /\ Written = <<>>
           /\ pc[last.conn] # "done" => state[last.conn] = last.state
           /\ state[last.conn] = AUTHENTICATED => last.state = AUTHENTICATED
           /\ BleCalls = <<>>

====
